---- MODULE Spec2Model ----
(***************************************************************************)
(* Model of the FTR valuation engine of euro-interconnector-pipeline       *)
(* (package fundie.ftr): spread builder, curve preparation, block          *)
(* bootstrap sampler, pricing engine, contract types.                      *)
(*                                                                         *)
(* Conventions of the model                                                *)
(*  - A float is an exact rational <<n, d>> in lowest terms with d > 0;    *)
(*    <<0, 0>> is NaN (a missing value).  Rounding of IEEE doubles is not  *)
(*    modelled.                                                            *)
(*  - A standard deviation is kept as the symbolic root of the exact       *)
(*    population variance: [sqrt |-> variance].                            *)
(*  - An instant is an integer number of ticks since the epoch, in UTC;    *)
(*    HourTicks ticks make one hour, so instants off the hour exist.       *)
(*  - A timezone is a fixed UTC offset in ticks (no DST in the pricing     *)
(*    path's model).                                                       *)
(*  - pandas Series with a DatetimeIndex: a sequence of [t, v] records.    *)
(*  - A raised exception is a record [exc, msg]; a call's outcome is       *)
(*    [status |-> "ok", value |-> ...] or [status |-> "raised", ...].      *)
(***************************************************************************)
EXTENDS Integers, Sequences, FiniteSets, TLC

VARIABLES
    prices,      \* the price table held by the session (prices_df)
    curve,       \* the curve table held by the session, or NoCurve (None)
    call,        \* the last call made: operation and arguments
    result,      \* what the last call returned or raised
    globalRng,   \* Python's module-level generator (random._inst)
    obj,         \* what the last constructor call returned or raised
    rerun,       \* history: the last call repeated the arguments of the one before
    others       \* history: calls made since the last recorded call, results dropped

vars == <<prices, curve, call, result, globalRng, obj, rerun, others>>

-----------------------------------------------------------------------------
(* Bounds of the model *)

\* most rows in an enumerated table
MaxRows == 3
\* largest settings.n_scenarios tried
MaxScenarios == 2
\* longest regular price history, in hours
MaxHistory == 3
\* latest contract end, in ticks
MaxEnd == 4
\* calls whose results are dropped, between two recorded calls
MaxOthers == 1
\* most contracts in a batch
MaxBatch == 2
\* largest n_hours of a short bootstrap call
MaxHours == 3
\* largest max_attempts of a client
MaxAttempts == 3

\* freq="h": ticks per step of an hourly date_range
HourTicks == 2
\* block_length_days * 24
HoursPerDay == 24

-----------------------------------------------------------------------------
(* Exact arithmetic standing for float arithmetic *)

NaN == <<0, 0>>

IsNaN(x) == x[2] = 0

Abs(i) == IF i < 0 THEN -i ELSE i

RECURSIVE GCD(_, _)
GCD(a, b) == IF b = 0 THEN a ELSE GCD(b, a % b)

Norm(n, d) ==
    IF d = 0 THEN NaN
    ELSE LET g == GCD(Abs(n), Abs(d))
             s == IF d < 0 THEN -1 ELSE 1
         IN  <<(s * n) \div g, (s * d) \div g>>

R(i) == <<i, 1>>

RAdd(x, y) == IF IsNaN(x) \/ IsNaN(y) THEN NaN
              ELSE Norm(x[1] * y[2] + y[1] * x[2], x[2] * y[2])

RNeg(x) == IF IsNaN(x) THEN NaN ELSE <<-x[1], x[2]>>

RSub(x, y) == RAdd(x, RNeg(y))

RMul(x, y) == IF IsNaN(x) \/ IsNaN(y) THEN NaN
              ELSE Norm(x[1] * y[1], x[2] * y[2])

\* x / k for an integer k; k = 0 gives NaN (0/0 of an empty mean)
RDivInt(x, k) == IF IsNaN(x) \/ k = 0 THEN NaN ELSE Norm(x[1], x[2] * k)

RLess(x, y) == x[1] * y[2] < y[1] * x[2]

RMax(x, y) == IF RLess(x, y) THEN y ELSE x

Sqrt(x) == [sqrt |-> x]

RECURSIVE SeqSum(_)
SeqSum(xs) == IF xs = <<>> THEN R(0) ELSE RAdd(xs[1], SeqSum(Tail(xs)))

RECURSIVE DropNa(_)
DropNa(xs) ==
    IF xs = <<>> THEN <<>>
    ELSE IF IsNaN(xs[1]) THEN DropNa(Tail(xs))
    ELSE <<xs[1]>> \o DropNa(Tail(xs))

\* pandas mean: missing values are skipped, the mean of nothing is NaN
MeanOfPresent(ys) == RDivInt(SeqSum(ys), Len(ys))

Mean(xs) == MeanOfPresent(DropNa(xs))

SquaresAbout(ys, m) == [i \in 1..Len(ys) |-> RMul(RSub(ys[i], m), RSub(ys[i], m))]

StdOfPresent(ys) == Sqrt(MeanOfPresent(SquaresAbout(ys, MeanOfPresent(ys))))

\* pandas std(ddof=0): population standard deviation of the values present
StdPop(xs) == StdOfPresent(DropNa(xs))

RECURSIVE InsertSorted(_, _)
InsertSorted(x, xs) ==
    IF xs = <<>> THEN <<x>>
    ELSE IF RLess(xs[1], x) THEN <<xs[1]>> \o InsertSorted(x, Tail(xs))
    ELSE <<x>> \o xs

RECURSIVE SortR(_)
SortR(xs) == IF xs = <<>> THEN <<>> ELSE InsertSorted(xs[1], SortR(Tail(xs)))

\* the value at position num / 100 (counted from 0) of the sorted values ys,
\* interpolated linearly between neighbours
Interpolate(ys, num) ==
    IF Len(ys) = 0 THEN NaN
    ELSE IF (num \div 100) + 1 >= Len(ys) THEN ys[Len(ys)]
    ELSE RAdd(ys[(num \div 100) + 1],
              RMul(Norm(num % 100, 100),
                   RSub(ys[(num \div 100) + 2], ys[(num \div 100) + 1])))

QuantileOfPresent(ys, pct) == Interpolate(SortR(ys), pct * (Len(ys) - 1))

\* pandas quantile(pct / 100), linear interpolation between order statistics
Quantile(xs, pct) == QuantileOfPresent(DropNa(xs), pct)

-----------------------------------------------------------------------------
(* Outcomes of calls *)

Ok(v) == [status |-> "ok", value |-> v]

Raise(m) == [status |-> "raised", exc |-> "ValueError", msg |-> m]

IsOk(o) == o.status = "ok"

ErrNoTimestamp == "prices_df must include a timestamp_utc or timestamp column"
ErrNoPrices == "No prices found for node"
ErrNoValueColumn == "curve must include spread or expected_spread column"
ErrModel == "Unsupported model"
ErrHours == "n_hours must be >= 1"
ErrEmptyResiduals == "residual_series must be non-empty"
ErrNoFinite == "residual_series must contain finite values"
ErrContractType == "Only obligation-style FTRs are supported in this model."
ErrEnum == "is not a valid ContractType"

-----------------------------------------------------------------------------
(* core/time.py *)

\* UTC offset of a timezone, in ticks
TzOffset(tz) == IF tz = "UTC" THEN 0 ELSE HourTicks

\* pd.date_range(a, b, freq="h"): a, a + 1h, ... up to and including b
RECURSIVE DateRange(_, _)
DateRange(a, b) == IF a > b THEN <<>> ELSE <<a>> \o DateRange(a + HourTicks, b)

\* A pd.Timestamp: wall-clock ticks and a zone, "naive" when it has none
Ts(wall, tz) == [wall |-> wall, tz |-> tz]

Utc(t) == Ts(t, "UTC")

\* tz_localize("UTC") of a naive instant, tz_convert("UTC") of an aware one
ensure_utc(ts) ==
    IF ts.tz = "naive" THEN Utc(ts.wall) ELSE Utc(ts.wall - TzOffset(ts.tz))

parse_datetime_utc(value) == ensure_utc(value)

\* as hourly_index_utc, the right end point kept (inclusive="both")
hourly_index_utc_closed(start_utc, end_utc) ==
    DateRange(ensure_utc(start_utc).wall, ensure_utc(end_utc).wall)

\* inclusive="left": the right end point is dropped when the range hits it
hourly_index_utc(start_utc, end_utc) ==
    LET s == ensure_utc(start_utc).wall
        e == ensure_utc(end_utc).wall
    IN  SelectSeq(DateRange(s, e), LAMBDA t : t # e)

\* A calendar date of the year 2024
Date(month, day) == [year |-> 2024, month |-> month, day |-> day]

MonthDays == <<31, 29, 31, 30, 31, 30, 31, 31, 30, 31, 30, 31>>

RECURSIVE DaysBefore(_)
DaysBefore(month) == IF month = 1 THEN 0 ELSE DaysBefore(month - 1) + MonthDays[month - 1]

\* ticks from 2024-01-01 00:00 to a wall-clock time of a date
WallTicks(date, hours, minutes) ==
    ((DaysBefore(date.month) + date.day - 1) * HoursPerDay + hours) * HourTicks
    + (minutes * HourTicks) \div 60

\* a zone of the tz database in 2024: standard offset, DST shift, and the UTC
\* instants at which DST begins and ends
Zone(std, shift, begins, ends) == [std |-> std, shift |-> shift, begins |-> begins, ends |-> ends]

\* the European Union's rule: 01:00 UTC, last Sundays of March and October
EuropeanZone(std) ==
    Zone(std, HourTicks, WallTicks(Date(3, 31), 1, 0), WallTicks(Date(10, 27), 1, 0))

\* ZoneInfo(tz)
ZoneInfo(tz) ==
    CASE tz = "UTC" -> Zone(0, 0, 0, 0)
      [] tz = "Europe/London" -> EuropeanZone(0)
      [] tz \in {"Europe/Brussels", "Europe/Berlin"} -> EuropeanZone(HourTicks)
      [] tz = "Europe/Helsinki" -> EuropeanZone(2 * HourTicks)
      [] tz = "Australia/Lord_Howe" ->
            Zone(10 * HourTicks + HourTicks \div 2, HourTicks \div 2,
                 WallTicks(Date(10, 5), 15, 30), WallTicks(Date(4, 6), 15, 0))

\* DST is in force at a UTC instant (in the south, across the new year)
InDst(zone, t) ==
    /\ zone.shift # 0
    /\ IF zone.begins < zone.ends THEN zone.begins <= t /\ t < zone.ends
       ELSE t < zone.ends \/ zone.begins <= t

\* the UTC instant of a wall-clock time with tzinfo=zone (fold=0): the
\* earlier instant of a repeated time, the standard offset in a skipped one
LocalToUtc(zone, wall) ==
    IF InDst(zone, wall - zone.std - zone.shift) THEN wall - zone.std - zone.shift
    ELSE wall - zone.std

\* as LocalEnd, 24 elapsed hours after the start
LocalEnd_elapsed(zone, wall) == LocalToUtc(zone, wall) + HoursPerDay * HourTicks

\* local_start + timedelta(days=1): the same wall-clock time a day later
LocalEnd(zone, wall) == LocalToUtc(zone, wall + HoursPerDay * HourTicks)

\* pd.date_range(a, b, freq="h", inclusive="left"), steps of elapsed time
LeftRange(a, b) == SelectSeq(DateRange(a, b), LAMBDA t : t # b)

\* the index, converted to UTC: its instants
utc_index_for_local_day(local_day, tz) ==
    LeftRange(LocalToUtc(ZoneInfo(tz), WallTicks(local_day, 0, 0)),
              LocalEnd(ZoneInfo(tz), WallTicks(local_day, 0, 0)))

-----------------------------------------------------------------------------
(* features/spreads.py *)

_pick_timestamp_column(df) ==
    IF "timestamp_utc" \in df.columns THEN Ok("timestamp_utc")
    ELSE IF "timestamp" \in df.columns THEN Ok("timestamp")
    ELSE Raise(ErrNoTimestamp)

\* naive instants are wall-clock time in tz_in; aware ones are converted
_coerce_timestamp(t, naive, tz_in) == IF naive THEN t - TzOffset(tz_in) ELSE t

SeqToSet(xs) == {xs[i] : i \in 1..Len(xs)}

SetMin(S) == CHOOSE x \in S : \A y \in S : x <= y

SetMax(S) == CHOOSE x \in S : \A y \in S : x >= y

RECURSIVE Ascending(_)
Ascending(S) ==
    IF S = {} THEN <<>>
    ELSE LET m == SetMin(S) IN <<m>> \o Ascending(S \ {m})

Values(series) == [i \in 1..Len(series) |-> series[i].v]

\* the values, in row order, of the rows (records with t and v) whose t is key
ValuesAt(rows, key) == Values(SelectSeq(rows, LAMBDA r : r.t = key))

MeanPerKey(rows, keys) ==
    [i \in 1..Len(keys) |-> [t |-> keys[i], v |-> Mean(ValuesAt(rows, keys[i]))]]

\* groupby(t).mean() followed by sort_index(): one entry per distinct t
GroupMeanSorted(rows) == MeanPerKey(rows, Ascending({rows[i].t : i \in 1..Len(rows)}))

Index(series) == {series[i].t : i \in 1..Len(series)}

At(series, t) ==
    IF t \in Index(series)
    THEN (CHOOSE e \in SeqToSet(series) : e.t = t).v
    ELSE NaN

\* Series.reindex(index): the value at each instant of index, NaN where absent
Reindex(series, index) ==
    [i \in 1..Len(index) |-> [t |-> index[i], v |-> At(series, index[i])]]

RECURSIVE FfillFrom(_, _)
FfillFrom(series, last) ==
    IF series = <<>> THEN <<>>
    ELSE IF IsNaN(series[1].v)
    THEN <<[t |-> series[1].t, v |-> last]>> \o FfillFrom(Tail(series), last)
    ELSE <<series[1]>> \o FfillFrom(Tail(series), series[1].v)

Ffill(series) == FfillFrom(series, NaN)

RECURSIVE Reverse(_)
Reverse(xs) == IF xs = <<>> THEN <<>> ELSE Reverse(Tail(xs)) \o <<xs[1]>>

Bfill(series) == Reverse(FfillFrom(Reverse(series), NaN))

\* subset["timestamp_utc"] = _coerce_timestamp(subset[ts_col], tz_in)
Stamp(rows, naive, tz_in, value_col) ==
    [i \in 1..Len(rows) |->
        [t |-> _coerce_timestamp(rows[i].ts, naive, tz_in), v |-> rows[i][value_col]]]

\* as ApplyMissingPolicy, the grid's gaps left missing
ApplyMissingPolicy_nofill(series, missing_policy) ==
    IF missing_policy = "ffill"
    THEN Reindex(series, DateRange(SetMin(Index(series)), SetMax(Index(series))))
    ELSE series

\* if missing_policy == "ffill": reindex on the hourly grid from the first to
\* the last observed instant, then forward-fill
ApplyMissingPolicy(series, missing_policy) ==
    IF missing_policy = "ffill"
    THEN Ffill(Reindex(series, DateRange(SetMin(Index(series)), SetMax(Index(series)))))
    ELSE series

\* as NodeSeries, without the check that the node has rows
NodeSeries_unchecked(subset, naive, tz_in, missing_policy) ==
    IF subset = <<>> THEN Ok(<<>>)
    ELSE Ok(ApplyMissingPolicy(GroupMeanSorted(Stamp(subset, naive, tz_in, "price")),
                               missing_policy))

NodeSeries(subset, naive, tz_in, missing_policy) ==
    IF subset = <<>> THEN Raise(ErrNoPrices)
    ELSE Ok(ApplyMissingPolicy(GroupMeanSorted(Stamp(subset, naive, tz_in, "price")),
                               missing_policy))

_prepare_node_prices(prices_df, node, tz_in, missing_policy) ==
    IF ~IsOk(_pick_timestamp_column(prices_df)) THEN _pick_timestamp_column(prices_df)
    ELSE NodeSeries(SelectSeq(prices_df.rows, LAMBDA r : r.node = node),
                    prices_df.naive, tz_in, missing_policy)

JoinRows(common, sink_series) ==
    [i \in 1..Len(common) |->
        [t |-> common[i].t, source |-> common[i].v, sink |-> At(sink_series, common[i].t)]]

\* as InnerJoin, every instant of the source kept (join="left")
InnerJoin_left(source_series, sink_series) == JoinRows(source_series, sink_series)

\* pd.concat(axis=1, join="inner"): the rows at the instants both series have
InnerJoin(source_series, sink_series) ==
    JoinRows(SelectSeq(source_series, LAMBDA e : e.t \in Index(sink_series)), sink_series)

\* joined["sink"] - joined["source"]
SinkMinusSource(joined) ==
    [i \in 1..Len(joined) |-> [t |-> joined[i].t, v |-> RSub(joined[i].sink, joined[i].source)]]

SpreadOf(source_series, sink_series) ==
    IF ~IsOk(source_series) THEN source_series
    ELSE IF ~IsOk(sink_series) THEN sink_series
    ELSE Ok(SinkMinusSource(InnerJoin(source_series.value, sink_series.value)))

compute_spread_series(prices_df, source, sink, tz_in, missing_policy) ==
    SpreadOf(_prepare_node_prices(prices_df, source, tz_in, missing_policy),
             _prepare_node_prices(prices_df, sink, tz_in, missing_policy))

ValueColumn(curve_df) ==
    IF "spread" \in curve_df.columns THEN "spread" ELSE "expected_spread"

\* if curve.isna().any(): curve = curve.ffill().bfill()
FillCurve(reindexed) ==
    IF \E i \in 1..Len(reindexed) : IsNaN(reindexed[i].v)
    THEN Bfill(Ffill(reindexed))
    ELSE reindexed

prepare_curve(curve_df, contract_hours, tz_in) ==
    IF ~IsOk(_pick_timestamp_column(curve_df)) THEN _pick_timestamp_column(curve_df)
    ELSE IF ValueColumn(curve_df) \notin curve_df.columns THEN Raise(ErrNoValueColumn)
    ELSE Ok(FillCurve(Reindex(
                GroupMeanSorted(Stamp(curve_df.rows, curve_df.naive, tz_in,
                                      ValueColumn(curve_df))),
                contract_hours)))

-----------------------------------------------------------------------------
(* config/settings.py *)

DefaultScenarios == 500
DefaultBlockDays == 7
DefaultSeed == 123

DefaultSettings ==
    [cache_dir |-> ".fundie_cache/ftr", tz_in |-> "UTC",
     n_scenarios |-> DefaultScenarios, block_length_days |-> DefaultBlockDays,
     seed |-> DefaultSeed, missing_hour_policy |-> "drop"]

NoSettings == [none |-> TRUE]

ErrPositive == "must be >= 1"
ErrSeed == "seed must be >= 0"

\* @field_validator("n_scenarios", "block_length_days")
_positive_int(v) == IF v < 1 THEN Raise(ErrPositive) ELSE Ok(v)

\* @field_validator("seed")
_seed_nonnegative(v) == IF v < 0 THEN Raise(ErrSeed) ELSE Ok(v)

\* the errors the validators raise, by field
FieldErrors(n_scenarios, block_length_days, seed) ==
    {[loc |-> "n_scenarios", msg |-> _positive_int(n_scenarios).msg] :
        x \in {1} \cap (IF IsOk(_positive_int(n_scenarios)) THEN {} ELSE {1})}
    \cup {[loc |-> "block_length_days", msg |-> _positive_int(block_length_days).msg] :
        x \in {1} \cap (IF IsOk(_positive_int(block_length_days)) THEN {} ELSE {1})}
    \cup {[loc |-> "seed", msg |-> _seed_nonnegative(seed).msg] :
        x \in {1} \cap (IF IsOk(_seed_nonnegative(seed)) THEN {} ELSE {1})}

\* pydantic raises one ValidationError that lists the fields rejected
ValidationError(errors) == [status |-> "raised", exc |-> "ValidationError", msg |-> errors]

\* as Validated, whatever the validators say
Validated_unchecked(fields, errors) == Ok(fields)

\* BaseModel.__init__: the object when no validator raised
Validated(fields, errors) == IF errors # {} THEN ValidationError(errors) ELSE Ok(fields)

\* FTRSettings(tz_in=..., n_scenarios=..., block_length_days=..., seed=..., missing_hour_policy=...)
FTRSettings(tz_in, n_scenarios, block_length_days, seed, missing_hour_policy) ==
    Validated([cache_dir |-> ".fundie_cache/ftr", tz_in |-> tz_in,
               n_scenarios |-> n_scenarios, block_length_days |-> block_length_days,
               seed |-> seed, missing_hour_policy |-> missing_hour_policy],
              FieldErrors(n_scenarios, block_length_days, seed))

\* settings.<field> = value: the model is not frozen and does not validate
\* assignments, the value is stored as given
SetAttr(settings, field, value) == [settings EXCEPT ![field] = value]

\* settings.model_copy(update={"cache_dir": cache_dir})
model_copy(settings, cache_dir) == [settings EXCEPT !.cache_dir = cache_dir]

-----------------------------------------------------------------------------
(* models/hs.py *)

Min(a, b) == IF a < b THEN a ELSE b

Max(a, b) == IF a > b THEN a ELSE b

_block_length_hours(series_len, settings) ==
    Min(IF settings.block_length_days * HoursPerDay < 1 THEN 1
        ELSE settings.block_length_days * HoursPerDay,
        Max(series_len, 1))

\* values[a:b] of Python, a and b counted from 0 and clamped to the list
Slice(values, a, b) == SubSeq(values, Min(a, Len(values)) + 1, Min(b, Len(values)))

\* as _take_block, the block cut off at the end of the list
_take_block_clipped(values, start, block_len) == Slice(values, start, start + block_len)

_take_block(values, start, block_len) ==
    IF start + block_len <= Len(values) THEN Slice(values, start, start + block_len)
    ELSE Slice(values, start, Len(values))
         \o Slice(values, 0, start + block_len - Len(values))

\* The k-th word of the Mersenne Twister stream of a seed.  The generator is
\* opaque to the model: a fixed function of (seed, position) stands for it.
MTWord(seed, pos) == ((seed + 2) * 7 + pos * pos * 3 + pos * 5 + seed * pos) % 11

\* as NewRandom, drawing from the module-level generator instead
NewRandom_shared(seed, shared) == shared

\* random.Random(seed): a generator of the caller's own, at the stream's start
NewRandom(seed, shared) == [seed |-> seed, pos |-> 0]

\* rng.randrange(0, n): the index drawn
Randrange(rng, n) == MTWord(rng.seed, rng.pos) % n

\* the generator after one draw
Advance(rng) == [rng EXCEPT !.pos = @ + 1]

\* while len(draws) < n_hours: draws.extend(_take_block(values, start, block_len))
RECURSIVE DrawBlocks(_, _, _, _, _)
DrawBlocks(values, n_hours, block_len, rng, draws) ==
    IF Len(draws) >= n_hours THEN [draws |-> draws, rng |-> rng]
    ELSE DrawBlocks(values, n_hours, block_len, Advance(rng),
                    draws \o _take_block(values, Randrange(rng, Len(values)), block_len))

\* for _ in range(settings.n_scenarios): ... scenarios.append(draws[:n_hours])
RECURSIVE ScenarioLoop(_, _, _, _, _, _)
\* as AppendScenario, the draws appended whole
AppendScenario_whole(todo, values, n_hours, block_len, drawn, scenarios) ==
    ScenarioLoop(todo - 1, values, n_hours, block_len, drawn.rng,
                 Append(scenarios, drawn.draws))

AppendScenario(todo, values, n_hours, block_len, drawn, scenarios) ==
    ScenarioLoop(todo - 1, values, n_hours, block_len, drawn.rng,
                 Append(scenarios, Slice(drawn.draws, 0, n_hours)))

ScenarioLoop(todo, values, n_hours, block_len, rng, scenarios) ==
    IF todo <= 0 THEN [scenarios |-> scenarios, rng |-> rng]
    ELSE AppendScenario(todo, values, n_hours, block_len,
                        DrawBlocks(values, n_hours, block_len, rng, <<>>), scenarios)

\* the scenarios, with the generator before and after the draws
Drawn(loop, rng) ==
    Ok([scenarios |-> loop.scenarios, rng_start |-> rng, rng_end |-> loop.rng])

BootstrapFrom(values, n_hours, settings, rng) ==
    Drawn(ScenarioLoop(settings.n_scenarios, values, n_hours,
                       _block_length_hours(Len(values), settings), rng, <<>>),
          rng)

\* as bootstrap_scenarios, without the check of n_hours
bootstrap_scenarios_anyhours(residual_series, n_hours, settings, shared) ==
    IF residual_series = <<>> THEN Raise(ErrEmptyResiduals)
    ELSE IF DropNa(residual_series) = <<>> THEN Raise(ErrNoFinite)
    ELSE BootstrapFrom(DropNa(residual_series), n_hours, settings,
                       NewRandom(settings.seed, shared))

\* residual_series: the values of the series, NaN included
bootstrap_scenarios(residual_series, n_hours, settings, shared) ==
    IF n_hours < 1 THEN Raise(ErrHours)
    ELSE IF residual_series = <<>> THEN Raise(ErrEmptyResiduals)
    ELSE IF DropNa(residual_series) = <<>> THEN Raise(ErrNoFinite)
    ELSE BootstrapFrom(DropNa(residual_series), n_hours, settings,
                       NewRandom(settings.seed, shared))

-----------------------------------------------------------------------------
(* data/cache.py *)

\* SHA-256 taken as collision free: the digest stands for what was hashed
Sha256(parts) == [sha256 |-> parts]

\* hash_pandas_object(df, index=True): one hash per row, of the row's index
\* label and its cell values; the column names are not part of it
\* the field of a row that holds the cell of a column
FieldOf(column) ==
    IF column \in {"timestamp_utc", "timestamp", "time"} THEN "ts" ELSE column

\* the cells of a row: the values under the columns the table has
Cells(df, row) == [f \in {FieldOf(c) : c \in df.columns} \cap DOMAIN row |-> row[f]]

_hash_dataframe(df) ==
    IF df.rows = <<>> \/ df.columns = {} THEN Sha256(<<"empty">>)
    ELSE Sha256([i \in 1..Len(df.rows) |-> <<i - 1, Cells(df, df.rows[i])>>])

compute_data_version(file_paths, settings, code_version, dataframes) ==
    Sha256(<<code_version, settings>>
           \o [i \in 1..Len(file_paths) |->
                  [path |-> file_paths[i].path, file |-> Sha256(file_paths[i].bytes)]]
           \o [i \in 1..Len(dataframes) |-> _hash_dataframe(dataframes[i])])

__version__ == "fundie.ftr.version.__version__"

-----------------------------------------------------------------------------
(* pricing/engine.py *)

NoCurve == [none |-> TRUE]

_ensure_settings(settings) == IF settings = NoSettings THEN DefaultSettings ELSE settings

\* as _payoff, every payoff floored at zero
_payoff_floored(spread, contract_type) == RMax(spread, R(0))

_payoff(spread, contract_type) ==
    IF contract_type = "option" THEN RMax(spread, R(0)) ELSE spread

\* payoff = 0.0; for base_value, residual in zip(base, scenario): payoff += ...
RECURSIVE PayoffSum(_, _, _)
PayoffSum(base, scenario, contract_type) ==
    IF base = <<>> THEN R(0)
    ELSE RAdd(PayoffSum(SubSeq(base, 1, Len(base) - 1),
                        SubSeq(scenario, 1, Len(base) - 1), contract_type),
              _payoff(RAdd(base[Len(base)], scenario[Len(base)]), contract_type))

\* spread_history - spread_history.mean()
Residuals(spread_history, mean) ==
    [i \in 1..Len(spread_history) |-> RSub(spread_history[i], mean)]

ScenarioPayoffs(boot, base, contract_type) ==
    IF ~IsOk(boot) THEN boot
    ELSE Ok([scenario_payoffs |->
                 [k \in 1..Len(boot.value.scenarios) |->
                     PayoffSum(base, boot.value.scenarios[k], contract_type)],
             rng_start |-> boot.value.rng_start,
             rng_end |-> boot.value.rng_end])

_price_hs(spread_history, curve_series, contract_type, settings, shared) ==
    ScenarioPayoffs(
        bootstrap_scenarios(Residuals(spread_history, Mean(spread_history)),
                            Len(curve_series), settings, shared),
        curve_series, contract_type)

\* [prices_df] + ([curve] if curve is not None else [])
FrameList(prices_df, curve_df) ==
    <<prices_df>> \o (IF curve_df # NoCurve THEN <<curve_df>> ELSE <<>>)

\* as Scaled, the capacity left out
Scaled_unscaled(scenario_payoffs, mw) == scenario_payoffs

\* pd.Series(scenario_payoffs, dtype="float") * contract_spec.mw
Scaled(scenario_payoffs, mw) ==
    [k \in 1..Len(scenario_payoffs) |-> RMul(scenario_payoffs[k], mw)]

\* lines 92-108: the ValuationResult built from the scaled payoffs
Valuation(contract_id, payoffs, model, data_version, metadata) ==
    [contract_id |-> contract_id,
     price |-> Mean(payoffs),
     currency |-> "EUR",
     mean_payoff |-> Mean(payoffs),
     stdev_payoff |-> StdPop(payoffs),
     p5_payoff |-> Quantile(payoffs, 5),
     p95_payoff |-> Quantile(payoffs, 95),
     n_scenarios |-> Len(payoffs),
     model |-> model,
     data_version |-> data_version,
     metadata |-> metadata]

\* lines 84-108, given the outcome hs of _price_hs
Valued(contract_spec, frames, model, settings, spread, contract_hours, base, hs) ==
    IF ~IsOk(hs) THEN hs
    ELSE [status |-> "ok",
          value |-> Valuation(contract_spec.contract_id,
                              Scaled(hs.value.scenario_payoffs, contract_spec.mw),
                              model,
                              compute_data_version(<<>>, settings, __version__, frames),
                              [hours |-> Len(contract_hours),
                               spread_mean |-> Mean(spread),
                               curve_mean |-> Mean(base)]),
          rng_start |-> hs.value.rng_start,
          rng_end |-> hs.value.rng_end]

\* lines 74-108, given the outcome curve_series of the curve's preparation
Modelled(contract_spec, frames, model, settings, shared, spread, contract_hours, curve_series) ==
    IF ~IsOk(curve_series) THEN curve_series
    ELSE IF model # "hs" THEN Raise(ErrModel)
    ELSE Valued(contract_spec, frames, model, settings, spread, contract_hours,
                Values(curve_series.value),
                _price_hs(spread, Values(curve_series.value),
                          contract_spec.contract_type, settings, shared))

\* as CurveSeries, the fallback curve zero instead of the spread's mean
CurveSeries_zero(curve_df, contract_hours, settings, spread) ==
    IF curve_df # NoCurve THEN prepare_curve(curve_df, contract_hours, settings.tz_in)
    ELSE Ok([i \in 1..Len(contract_hours) |-> [t |-> contract_hours[i], v |-> R(0)]])

\* lines 69-72: the prepared curve, or the spread's mean at every contract hour
CurveSeries(curve_df, contract_hours, settings, spread) ==
    IF curve_df # NoCurve THEN prepare_curve(curve_df, contract_hours, settings.tz_in)
    ELSE Ok([i \in 1..Len(contract_hours) |-> [t |-> contract_hours[i], v |-> Mean(spread)]])

\* lines 68-108, given the spread's values and the contract hours
Curved(contract_spec, curve_df, frames, model, settings, shared, spread, contract_hours) ==
    Modelled(contract_spec, frames, model, settings, shared, spread, contract_hours,
             CurveSeries(curve_df, contract_hours, settings, spread))

\* lines 60-108, given the outcome spread_series of compute_spread_series
Spreaded(contract_spec, curve_df, frames, model, settings, shared, spread_series) ==
    IF ~IsOk(spread_series) THEN spread_series
    ELSE Curved(contract_spec, curve_df, frames, model, settings, shared,
                Values(spread_series.value),
                hourly_index_utc(contract_spec.start_utc, contract_spec.end_utc))

\* lines 60-108, given the settings in force
Priced(contract_spec, prices_df, curve_df, model, settings, shared) ==
    Spreaded(contract_spec, curve_df, FrameList(prices_df, curve_df), model, settings,
             shared,
             compute_spread_series(prices_df, contract_spec.source, contract_spec.sink,
                                   settings.tz_in, settings.missing_hour_policy))

price_contract(contract_spec, prices_df, curve_df, model, settings, shared) ==
    Priced(contract_spec, prices_df, curve_df, model, _ensure_settings(settings), shared)

-----------------------------------------------------------------------------
(* core/types.py *)

\* ContractType(value): the enum member of a value, ValueError when none
ContractType(value) ==
    IF value \in {"obligation", "option"} THEN Ok(value) ELSE Raise(ErrEnum)

\* as __post_init__, without the check
ContractSpecPostInit_any(self) == Ok(self)

\* __post_init__
ContractSpecPostInit(self) ==
    IF self.contract_type # "obligation" THEN Raise(ErrContractType) ELSE Ok(self)

\* ContractSpec(...): the dataclass constructor, contract_type defaulted
ContractSpec(source, sink, start_utc, end_utc, mw, contract_type, contract_id) ==
    ContractSpecPostInit(
        [source |-> source, sink |-> sink, start_utc |-> start_utc,
         end_utc |-> end_utc, mw |-> mw, contract_type |-> contract_type,
         contract_id |-> contract_id])

\* a number in a record read from a file: an int or a float
PyInt(i) == [int |-> i]

PyFloat(x) == [float |-> x]

\* float(value): an int becomes the float of the same value
Float(value) == IF "int" \in DOMAIN value THEN R(value.int) ELSE value.float

\* dict.get(key, default)
DictGet(data, key, default) == IF key \in DOMAIN data THEN data[key] ELSE default

NoId == "None"

from_dict(data) ==
    LET start == parse_datetime_utc(data["start_utc"])
        end == parse_datetime_utc(data["end_utc"])
        contract_type == ContractType(DictGet(data, "contract_type", "obligation"))
    IN  IF ~IsOk(contract_type) THEN contract_type
        ELSE ContractSpec(data["source"], data["sink"], start, end, Float(data["mw"]),
                          contract_type.value, DictGet(data, "contract_id", NoId))

-----------------------------------------------------------------------------
(* Inputs *)

Row(ts, node, price) == [ts |-> ts, node |-> node, price |-> price]

Table(columns, naive, rows) == [columns |-> columns, naive |-> naive, rows |-> rows]

PriceColumns == {"timestamp_utc", "node", "price"}

\* the sink's price in hour h of a regular history
BPrice(h) == IF h % 3 = 0 THEN 2 ELSE IF h % 3 = 1 THEN 6 ELSE 3

\* n hours of both nodes, the sink's rows first and latest first
HistoryTable(n) ==
    Table(PriceColumns, FALSE,
          [i \in 1..n |-> Row((n - i) * HourTicks, "B", R(BPrice(n - i)))]
          \o [i \in 1..n |-> Row((i - 1) * HourTicks, "A", R(1))])

\* n hours of both nodes with the same spread b - 1 in every hour
FlatTable(n, b) ==
    Table(PriceColumns, FALSE,
          [i \in 1..n |-> Row((i - 1) * HourTicks, "A", R(1))]
          \o [i \in 1..n |-> Row((i - 1) * HourTicks, "B", R(b))])

OverlapTable ==
    Table(PriceColumns, FALSE,
          <<Row(4, "A", R(2)), Row(6, "B", R(1)), Row(0, "A", R(1)), Row(2, "B", R(5)),
            Row(2, "A", R(3)), Row(4, "B", R(0)), Row(2, "A", R(4))>>)

DupTable ==
    Table({"timestamp", "node", "price"}, FALSE,
          <<Row(0, "A", R(1)), Row(0, "B", R(3)), Row(0, "A", R(4)), Row(2, "B", R(5)),
            Row(2, "A", R(1)), Row(2, "B", R(6))>>)

DisjointTable == Table(PriceColumns, FALSE, <<Row(0, "A", R(1)), Row(2, "B", R(4))>>)

OnlyATable == Table(PriceColumns, FALSE, <<Row(0, "A", R(1)), Row(2, "A", R(4))>>)

NoTimestampTable ==
    Table({"time", "node", "price"}, FALSE, <<Row(0, "A", R(1)), Row(0, "B", R(4))>>)

GapTable ==
    Table(PriceColumns, FALSE,
          <<Row(0, "A", R(1)), Row(4, "A", R(2)), Row(0, "B", R(4)), Row(2, "B", R(0)),
            Row(4, "B", R(7))>>)

NaiveTable ==
    Table(PriceColumns, TRUE,
          <<Row(2, "A", R(1)), Row(2, "B", R(2)), Row(4, "A", R(1)), Row(4, "B", R(7))>>)

OffHourTable ==
    Table(PriceColumns, FALSE,
          <<Row(1, "A", R(1)), Row(1, "B", R(4)), Row(3, "A", R(1)), Row(3, "B", R(0))>>)

MissingPriceTable ==
    Table(PriceColumns, FALSE,
          <<Row(0, "A", R(1)), Row(0, "B", NaN), Row(2, "A", R(1)), Row(2, "B", R(4))>>)

PriceTables ==
    {HistoryTable(n) : n \in 0..MaxHistory}
    \cup {FlatTable(n, 4) : n \in 1..MaxHistory} \cup {FlatTable(1, 1)}
    \cup {OverlapTable, DupTable, DisjointTable, OnlyATable, NoTimestampTable,
          GapTable, NaiveTable, OffHourTable, MissingPriceTable}

CurveRow(ts, spread, expected_spread) ==
    [ts |-> ts, spread |-> spread, expected_spread |-> expected_spread]

\* the curve -5 in each of the first three hours
FlatCurve ==
    Table({"timestamp_utc", "spread"}, FALSE,
          [i \in 1..3 |-> CurveRow((i - 1) * HourTicks, R(-5), NaN)])

\* one hour known, given twice
PartialCurve ==
    Table({"timestamp", "expected_spread"}, FALSE,
          <<CurveRow(2, NaN, R(3)), CurveRow(2, NaN, R(-5))>>)

\* both value columns, the values differing
TwoColumnCurve ==
    Table({"timestamp_utc", "spread", "expected_spread"}, FALSE,
          <<CurveRow(2, R(3), R(9)), CurveRow(0, R(-2), R(9))>>)

FarCurve == Table({"timestamp_utc", "spread"}, FALSE, <<CurveRow(20, R(3), NaN)>>)

NoValueCurve == Table({"timestamp_utc", "price"}, FALSE, <<CurveRow(0, R(3), R(3))>>)

NoTimestampCurve == Table({"spread"}, FALSE, <<CurveRow(0, R(3), NaN)>>)

CurveTables ==
    {FlatCurve, PartialCurve, TwoColumnCurve, FarCurve, NoValueCurve, NoTimestampCurve}

Settings(seed, n_scenarios, block_length_days, policy, tz_in) ==
    [cache_dir |-> ".fundie_cache/ftr", tz_in |-> tz_in, n_scenarios |-> n_scenarios,
     block_length_days |-> block_length_days, seed |-> seed,
     missing_hour_policy |-> policy]

Seeds == {1, 8}

Policies == {"drop", "ffill"}

Zones == {"UTC", "Etc/GMT-1"}

PricingSettings ==
    {Settings(1, n, 1, policy, "UTC") : n \in 1..MaxScenarios, policy \in Policies}
    \cup {Settings(8, MaxScenarios, 1, "drop", "UTC")}
    \cup {Settings(1, MaxScenarios, 2, "drop", "Etc/GMT-1")}

\* the settings tried with a model name the engine does not know
OtherModelSettings == {Settings(1, 1, 1, policy, "UTC") : policy \in Policies}

Models == {"hs", "mc"}

NodePairs == {<<"A", "B">>, <<"B", "A">>, <<"A", "C">>, <<"C", "B">>}

\* mw as the records give it: an int, or a float
Capacities == {PyInt(2), PyFloat(R(-1))}

SpecDict(pair, s, e, mw) ==
    [source |-> pair[1], sink |-> pair[2], start_utc |-> Utc(s), end_utc |-> Utc(e),
     mw |-> mw, contract_type |-> "obligation", contract_id |-> "c1"]

\* the contracts priced: every one is built by from_dict
ContractSpecs ==
    {from_dict(SpecDict(pair, s, e, mw)).value :
        pair \in NodePairs, s \in 0..1, e \in 0..MaxEnd, mw \in Capacities}

-----------------------------------------------------------------------------
(* The session: tables loaded once, then calls of the engine *)

NoCall == [op |-> "none"]

NoResult == [status |-> "none"]

NoObject == [status |-> "none"]

\* the module-level generator, seeded from the system; settings seeds are >= 0
OsSeeded == [seed |-> -1, pos |-> 0]

\* the state of the module-level generator after a call: it moves only when
\* the call drew from it
AfterCall(shared, out) ==
    IF IsOk(out) /\ out.rng_start = shared THEN out.rng_end ELSE shared

\* the same after a direct call of bootstrap_scenarios
AfterBootstrap(shared, out) ==
    IF IsOk(out) /\ out.value.rng_start = shared THEN out.value.rng_end ELSE shared

Init ==
    /\ prices \in PriceTables
    /\ curve \in CurveTables \cup {NoCurve}
    /\ call = NoCall
    /\ result = NoResult
    /\ globalRng = OsSeeded
    /\ obj = NoObject
    /\ rerun = FALSE
    /\ others = 0

\* The session is idle: no call's outcome is held
Idle == call = NoCall

\* price_contract(contract_spec, prices_df, curve, model=model, settings=settings)
PriceContract ==
    /\ Idle
    /\ \E contract_spec \in ContractSpecs, model \in Models :
       \E settings \in IF model = "hs" THEN PricingSettings ELSE OtherModelSettings :
        LET out == price_contract(contract_spec, prices, curve, model, settings, globalRng)
        IN  /\ call' = [op |-> "price_contract", contract_spec |-> contract_spec,
                        model |-> model, settings |-> settings]
            /\ result' = out
            /\ globalRng' = AfterCall(globalRng, out)
            /\ UNCHANGED <<prices, curve, obj, rerun, others>>

\* the caller drops the outcome it holds
Discard ==
    /\ ~Idle
    /\ call' = NoCall
    /\ result' = NoResult
    /\ rerun' = FALSE
    /\ others' = 0
    /\ UNCHANGED <<prices, curve, globalRng, obj>>

Next == PriceContract \/ Discard

Spec == Init /\ [][Next]_vars

-----------------------------------------------------------------------------
(* pricing/engine.py: price_batch *)

\* An element of specs: a ContractSpec object, or a record to convert
AsObject(spec) == [spec |-> spec]

AsDict(data) == [dict |-> data]

\* specs given as a list of elements, or as a table (one record per row)
SpecList(items) == [items |-> items]

SpecFrame(records) == [records |-> records]

\* spec if isinstance(spec, ContractSpec) else ContractSpec.from_dict(spec)
NormalizeItem(item) ==
    IF "spec" \in DOMAIN item THEN Ok(item.spec) ELSE from_dict(item.dict)

\* the list comprehension: the first conversion that raises ends it
RECURSIVE NormalizeAll(_, _)
\* as NormalizeNext, an element that does not convert left out
NormalizeNext_skipping(items, done, converted) ==
    IF ~IsOk(converted) THEN NormalizeAll(Tail(items), done)
    ELSE NormalizeAll(Tail(items), Append(done, converted.value))

NormalizeNext(items, done, converted) ==
    IF ~IsOk(converted) THEN converted
    ELSE NormalizeAll(Tail(items), Append(done, converted.value))

NormalizeAll(items, done) ==
    IF items = <<>> THEN Ok(done)
    ELSE NormalizeNext(items, done, NormalizeItem(items[1]))

_normalize_specs(specs) ==
    IF "records" \in DOMAIN specs
    THEN NormalizeAll([i \in 1..Len(specs.records) |-> AsDict(specs.records[i])], <<>>)
    ELSE NormalizeAll(specs.items, <<>>)

\* A provider function: the table it returns for a contract, by source node
Provider(by_source) == [callable |-> by_source]

\* callable(data_provider)
IsCallable(provider) == "callable" \in DOMAIN provider

\* data_provider(spec) if callable(data_provider) else data_provider
Provide(provider, spec) ==
    IF IsCallable(provider) THEN provider.callable[spec.source] ELSE provider

\* What the loop has done so far: the contracts each provider was called
\* with, and the contracts price_contract was called with
NoCalls == [price_calls |-> <<>>, curve_calls |-> <<>>, priced |-> <<>>]

Logged(log, data_provider, curve_provider, spec) ==
    [price_calls |-> log.price_calls \o (IF IsCallable(data_provider) THEN <<spec>> ELSE <<>>),
     curve_calls |-> log.curve_calls \o (IF IsCallable(curve_provider) THEN <<spec>> ELSE <<>>),
     priced |-> Append(log.priced, spec)]

\* lines 141-157: the row of a priced contract
BatchRow(spec, valuation) ==
    [contract_id |-> spec.contract_id,
     source |-> spec.source,
     sink |-> spec.sink,
     start_utc |-> spec.start_utc,
     end_utc |-> spec.end_utc,
     mw |-> spec.mw,
     contract_type |-> spec.contract_type,
     price |-> valuation.price,
     mean_payoff |-> valuation.mean_payoff,
     stdev_payoff |-> valuation.stdev_payoff,
     p5_payoff |-> valuation.p5_payoff,
     p95_payoff |-> valuation.p95_payoff,
     n_scenarios |-> valuation.n_scenarios,
     model |-> valuation.model,
     data_version |-> valuation.data_version]

\* as Collected, the new row put first
Collected_front(rows, row) == <<row>> \o rows

\* rows.append(...)
Collected(rows, row) == Append(rows, row)

\* pd.DataFrame(rows): the columns are the keys of the rows
DataFrame(rows) ==
    [columns |-> IF rows = <<>> THEN {} ELSE DOMAIN rows[1], rows |-> rows]

\* the exception of the contract that failed leaves price_batch
Propagated(out, log) ==
    [status |-> "raised", exc |-> out.exc, msg |-> out.msg, log |-> log]

RECURSIVE BatchLoop(_, _, _, _, _, _, _, _)
\* as BatchStep, a contract that fails left out and the loop carried on
BatchStep_skipping(normalized, data_provider, curve_provider, model, settings, shared, rows, log, out) ==
    IF ~IsOk(out)
    THEN BatchLoop(Tail(normalized), data_provider, curve_provider, model, settings,
                   shared, rows, log)
    ELSE BatchLoop(Tail(normalized), data_provider, curve_provider, model, settings,
                   AfterCall(shared, out),
                   Collected(rows, BatchRow(normalized[1], out.value)), log)

\* lines 133-158, given the outcome out of price_contract for the first of normalized
BatchStep(normalized, data_provider, curve_provider, model, settings, shared, rows, log, out) ==
    IF ~IsOk(out) THEN Propagated(out, log)
    ELSE BatchLoop(Tail(normalized), data_provider, curve_provider, model, settings,
                   AfterCall(shared, out),
                   Collected(rows, BatchRow(normalized[1], out.value)), log)

\* for spec in normalized: ...; return pd.DataFrame(rows)
BatchLoop(normalized, data_provider, curve_provider, model, settings, shared, rows, log) ==
    IF normalized = <<>>
    THEN [status |-> "ok", value |-> DataFrame(rows), log |-> log, rng_end |-> shared]
    ELSE BatchStep(normalized, data_provider, curve_provider, model, settings, shared, rows,
                   Logged(log, data_provider, curve_provider, normalized[1]),
                   price_contract(normalized[1], Provide(data_provider, normalized[1]),
                                  Provide(curve_provider, normalized[1]), model, settings,
                                  shared))

\* lines 127-159, given the outcome of _normalize_specs
Batched(normalized, data_provider, curve_provider, model, settings, shared) ==
    IF ~IsOk(normalized) THEN Propagated(normalized, NoCalls)
    ELSE BatchLoop(normalized.value, data_provider, curve_provider, model, settings,
                   shared, <<>>, NoCalls)

price_batch(specs, data_provider, curve_provider, model, settings, shared) ==
    Batched(_normalize_specs(specs), data_provider, curve_provider, model,
            _ensure_settings(settings), shared)

-----------------------------------------------------------------------------
(* Repeated calls: a recorded call, other calls around it, the call again *)

IdleState ==
    /\ call = NoCall
    /\ result = NoResult
    /\ globalRng = OsSeeded
    /\ obj = NoObject
    /\ rerun = FALSE
    /\ others = 0

RepeatTables ==
    {HistoryTable(MaxHistory), FlatTable(2, 4), OverlapTable, OnlyATable, GapTable}

RepeatCurves == {NoCurve, FlatCurve, FarCurve, NoValueCurve}

InitRepeat ==
    /\ prices \in RepeatTables
    /\ curve \in RepeatCurves
    /\ IdleState

\* the contracts and settings of the calls made in between
OtherSpecs ==
    {from_dict(SpecDict(pair, 0, MaxEnd, PyInt(2))).value :
        pair \in {<<"A", "B">>, <<"B", "A">>}}

OtherSettings == {Settings(seed, MaxScenarios, 1, "drop", "UTC") : seed \in Seeds}

OtherResiduals == {<<R(1), R(-1)>>, <<R(0), R(2), R(-2)>>}

\* price_contract on some other contract, its result dropped
OtherPricing ==
    /\ ~rerun
    /\ others < MaxOthers
    /\ \E contract_spec \in OtherSpecs, settings \in OtherSettings :
        globalRng' = AfterCall(globalRng,
                               price_contract(contract_spec, prices, curve, "hs",
                                              settings, globalRng))
    /\ others' = others + 1
    /\ UNCHANGED <<prices, curve, call, result, obj, rerun>>

\* bootstrap_scenarios called directly, its result dropped
OtherBootstrap ==
    /\ ~rerun
    /\ others < MaxOthers
    /\ \E residual_series \in OtherResiduals, n_hours \in 1..2, settings \in OtherSettings :
        globalRng' = AfterBootstrap(globalRng,
                                    bootstrap_scenarios(residual_series, n_hours,
                                                        settings, globalRng))
    /\ others' = others + 1
    /\ UNCHANGED <<prices, curve, call, result, obj, rerun>>

\* price_contract again, with the arguments of the recorded call
Repeat ==
    /\ call.op = "price_contract"
    /\ ~rerun
    /\ LET out == price_contract(call.contract_spec, prices, curve, call.model,
                                 call.settings, globalRng)
       IN  /\ result' = out
           /\ globalRng' = AfterCall(globalRng, out)
    /\ rerun' = TRUE
    /\ UNCHANGED <<prices, curve, call, obj, others>>

NextRepeat == PriceContract \/ OtherPricing \/ OtherBootstrap \/ Repeat \/ Discard

SpecRepeat == InitRepeat /\ [][NextRepeat]_vars

-----------------------------------------------------------------------------
(* Contracts: built from a record or directly, then priced *)

ContractTables == {HistoryTable(MaxHistory), FlatTable(2, 4)}

ContractCurves == {NoCurve, FlatCurve}

InitContract ==
    /\ prices \in ContractTables
    /\ curve \in ContractCurves
    /\ IdleState

\* the record without a key
Without(data, key) == [k \in DOMAIN data \ {key} |-> data[k]]

\* what a record gives as contract_type; Absent: the key is not there
TypeEntries == {"obligation", "option", "swap", "Absent"}

ContractDict(pair, s, e, mw, entry) ==
    IF entry = "Absent" THEN Without(SpecDict(pair, s, e, mw), "contract_type")
    ELSE [SpecDict(pair, s, e, mw) EXCEPT !.contract_type = entry]

\* ContractSpec.from_dict(data)
FromDict ==
    /\ Idle
    /\ obj = NoObject
    /\ \E pair \in NodePairs, s \in 0..1, e \in 0..MaxEnd, mw \in Capacities,
          entry \in TypeEntries :
        /\ call' = [op |-> "from_dict", data |-> ContractDict(pair, s, e, mw, entry)]
        /\ obj' = from_dict(ContractDict(pair, s, e, mw, entry))
    /\ UNCHANGED <<prices, curve, result, globalRng, rerun, others>>

\* ContractSpec(source=..., ..., contract_type=...)
Construct ==
    /\ Idle
    /\ obj = NoObject
    /\ \E pair \in NodePairs, s \in 0..1, e \in 0..MaxEnd,
          contract_type \in {"obligation", "option", "swap"} :
        /\ call' = [op |-> "ContractSpec", contract_type |-> contract_type]
        /\ obj' = ContractSpec(pair[1], pair[2], Utc(s), Utc(e), R(2), contract_type, NoId)
    /\ UNCHANGED <<prices, curve, result, globalRng, rerun, others>>

ContractSettings == {Settings(seed, MaxScenarios, 1, "drop", "UTC") : seed \in Seeds}

\* price_contract on the contract that was built
PriceObject ==
    /\ IsOk(obj)
    /\ result = NoResult
    /\ \E settings \in ContractSettings :
        LET out == price_contract(obj.value, prices, curve, "hs", settings, globalRng)
        IN  /\ call' = [op |-> "price_contract", contract_spec |-> obj.value,
                        model |-> "hs", settings |-> settings]
            /\ result' = out
            /\ globalRng' = AfterCall(globalRng, out)
    /\ UNCHANGED <<prices, curve, obj, rerun, others>>

\* the caller drops what it holds
Drop ==
    /\ obj # NoObject
    /\ obj' = NoObject
    /\ call' = NoCall
    /\ result' = NoResult
    /\ UNCHANGED <<prices, curve, globalRng, rerun, others>>

NextContract == FromDict \/ Construct \/ PriceObject \/ Drop

SpecContract == InitContract /\ [][NextContract]_vars

-----------------------------------------------------------------------------
(* The spread builder alone, on enumerated price tables *)

\* instants of the rows of an enumerated table: on the hour and off it
Instants == {0, 1, 2}

RowValues == {Row(ts, node, R(price)) : ts \in Instants, node \in {"A", "B"}, price \in {1, 4}}

EnumeratedTables ==
    {Table(PriceColumns, FALSE, rows) :
        rows \in UNION {[1..n -> RowValues] : n \in 0..MaxRows}}

InitSpread ==
    /\ prices \in EnumeratedTables \cup PriceTables
    /\ curve = NoCurve
    /\ IdleState

\* compute_spread_series(prices_df, source=..., sink=..., tz_in=..., missing_policy=...)
ComputeSpread ==
    /\ Idle
    /\ \E pair \in NodePairs, tz_in \in Zones, missing_policy \in Policies :
        /\ call' = [op |-> "compute_spread_series", source |-> pair[1], sink |-> pair[2],
                    tz_in |-> tz_in, missing_policy |-> missing_policy]
        /\ result' = compute_spread_series(prices, pair[1], pair[2], tz_in, missing_policy)
    /\ UNCHANGED <<prices, curve, globalRng, obj, rerun, others>>

NextSpread == ComputeSpread \/ Discard

SpecSpread == InitSpread /\ [][NextSpread]_vars

-----------------------------------------------------------------------------
(* One node's price series alone, on the same tables *)

\* _prepare_node_prices(prices_df, node, tz_in, missing_policy)
PrepareNode ==
    /\ Idle
    /\ \E node \in {"A", "B", "C"}, tz_in \in Zones, missing_policy \in Policies :
        /\ call' = [op |-> "_prepare_node_prices", node |-> node, tz_in |-> tz_in,
                    missing_policy |-> missing_policy]
        /\ result' = _prepare_node_prices(prices, node, tz_in, missing_policy)
    /\ UNCHANGED <<prices, curve, globalRng, obj, rerun, others>>

NextNode == PrepareNode \/ Discard

SpecNode == InitSpread /\ [][NextNode]_vars

-----------------------------------------------------------------------------
(* The curve preparation alone, on enumerated curve tables *)

CurveInstants == {0, 2, 6}

CurveRowValues ==
    {CurveRow(ts, spread, NaN) : ts \in CurveInstants, spread \in {R(3), R(-5), NaN}}

EnumeratedCurves ==
    {Table({"timestamp_utc", "spread"}, FALSE, rows) :
        rows \in UNION {[1..n -> CurveRowValues] : n \in 1..MaxRows}}

InitCurve ==
    /\ prices = HistoryTable(0)
    /\ curve \in EnumeratedCurves \cup CurveTables
    /\ IdleState

\* prepare_curve(curve, contract_hours=hourly_index_utc(start, end), tz_in=...)
PrepareCurve ==
    /\ Idle
    /\ \E s \in 0..1, e \in 0..MaxEnd, tz_in \in Zones :
        /\ call' = [op |-> "prepare_curve",
                    contract_hours |-> hourly_index_utc(Utc(s), Utc(e)),
                    tz_in |-> tz_in]
        /\ result' = prepare_curve(curve, hourly_index_utc(Utc(s), Utc(e)), tz_in)
    /\ UNCHANGED <<prices, curve, globalRng, obj, rerun, others>>

NextCurve == PrepareCurve \/ Discard

SpecCurve == InitCurve /\ [][NextCurve]_vars

-----------------------------------------------------------------------------
(* The data version alone: one call, then a second with other arguments *)

InitVersion ==
    /\ prices = HistoryTable(0)
    /\ curve = NoCurve
    /\ IdleState

\* a file: where it is stored and what it holds
File(path, bytes) == [path |-> path, bytes |-> bytes]

VersionFiles ==
    {<<>>, <<File("a/prices.csv", "x")>>, <<File("b/p.csv", "x")>>,
     <<File("a/prices.csv", "y")>>}

\* a small table, and the same with a column renamed, a cell changed, the rows
\* in another order, a row more, no rows
BaseFrame == Table(PriceColumns, FALSE, <<Row(0, "A", R(1)), Row(2, "A", R(4))>>)

RenamedFrame == Table({"timestamp", "node", "price"}, FALSE, BaseFrame.rows)

ChangedFrame == Table(PriceColumns, FALSE, <<Row(0, "A", R(1)), Row(2, "A", R(5))>>)

ReorderedFrame == Table(PriceColumns, FALSE, Reverse(BaseFrame.rows))

LongerFrame == Table(PriceColumns, FALSE, Append(BaseFrame.rows, Row(4, "A", R(1))))

VersionFrames ==
    {<<>>, <<BaseFrame>>, <<RenamedFrame>>, <<ChangedFrame>>, <<ReorderedFrame>>,
     <<LongerFrame>>, <<HistoryTable(0)>>, <<BaseFrame, ChangedFrame>>}

VersionSettings ==
    {Settings(1, 1, 1, "drop", "UTC"), Settings(8, 1, 1, "drop", "UTC"),
     Settings(1, 1, 1, "ffill", "UTC")}

CodeVersions == {__version__, "0.2.0"}

VersionCall(file_paths, settings, code_version, dataframes) ==
    [op |-> "compute_data_version", file_paths |-> file_paths, settings |-> settings,
     code_version |-> code_version, dataframes |-> dataframes]

\* compute_data_version(file_paths=..., settings=..., code_version=..., dataframes=...)
ComputeVersion ==
    /\ Idle
    /\ \E file_paths \in VersionFiles, settings \in VersionSettings,
          code_version \in CodeVersions, dataframes \in VersionFrames :
        /\ call' = VersionCall(file_paths, settings, code_version, dataframes)
        /\ result' = Ok(compute_data_version(file_paths, settings, code_version, dataframes))
    /\ UNCHANGED <<prices, curve, globalRng, obj, rerun, others>>

\* a second call, with arguments of its own; the first digest is in result
ComputeVersionAgain ==
    /\ call.op = "compute_data_version"
    /\ ~rerun
    /\ \E file_paths \in VersionFiles, settings \in VersionSettings,
          code_version \in CodeVersions, dataframes \in VersionFrames :
        /\ call' = VersionCall(file_paths, settings, code_version, dataframes)
        /\ result' = Ok(compute_data_version(file_paths, settings, code_version, dataframes))
    /\ rerun' = TRUE
    /\ UNCHANGED <<prices, curve, globalRng, obj, others>>

NextVersion == ComputeVersion \/ ComputeVersionAgain \/ Discard

SpecVersion == InitVersion /\ [][NextVersion]_vars

-----------------------------------------------------------------------------
(* Batches: price_batch on short lists and tables of contracts *)

BatchDict(pair, e, mw, contract_type, contract_id) ==
    [source |-> pair[1], sink |-> pair[2], start_utc |-> Utc(0), end_utc |-> Utc(e),
     mw |-> mw, contract_type |-> contract_type, contract_id |-> contract_id]

\* records that convert to a contract
GoodDicts ==
    {BatchDict(<<"A", "B">>, 4, PyInt(2), "obligation", "c1"),
     BatchDict(<<"B", "A">>, 2, PyFloat(R(-1)), "obligation", "c2"),
     BatchDict(<<"C", "B">>, 4, PyInt(2), "obligation", "c3")}

\* a record that does not
BadDicts == {BatchDict(<<"A", "B">>, 4, PyInt(2), "option", "c4")}

BatchItems ==
    {AsObject(from_dict(d).value) : d \in GoodDicts}
    \cup {AsDict(d) : d \in GoodDicts \cup BadDicts}

SeqsUpTo(S, n) == UNION {[1..k -> S] : k \in 0..n}

BatchInputs ==
    {SpecList(items) : items \in SeqsUpTo(BatchItems, MaxBatch)}
    \cup {SpecFrame(records) : records \in SeqsUpTo(GoodDicts \cup BadDicts, MaxBatch)}

BatchSettings == {Settings(seed, MaxScenarios, 1, "drop", "UTC") : seed \in Seeds}

\* a price provider: the session's table for source A, other tables otherwise
PriceProvider(table) ==
    Provider([node \in {"A", "B", "C"} |->
                 IF node = "A" THEN table
                 ELSE IF node = "B" THEN FlatTable(2, 4) ELSE OnlyATable])

\* a curve provider: no curve for source A
CurveProvider(table) ==
    Provider([node \in {"A", "B", "C"} |->
                 IF node = "A" THEN NoCurve
                 ELSE IF node = "B" THEN FlatCurve ELSE table])

InitBatch ==
    /\ prices \in {HistoryTable(MaxHistory), FlatTable(2, 4), OnlyATable}
    /\ curve \in {NoCurve, FlatCurve, NoValueCurve}
    /\ call = NoCall
    /\ result = NoResult
    /\ globalRng = OsSeeded
    /\ obj = NoObject
    /\ rerun = FALSE
    /\ others = 0

BatchCall(specs, data_provider, curve_provider, settings) ==
    [op |-> "price_batch", specs |-> specs, data_provider |-> data_provider,
     curve |-> curve_provider, model |-> "hs", settings |-> settings]

\* price_batch(specs, data_provider, curve, settings=settings)
PriceBatch ==
    /\ Idle
    /\ \E specs \in BatchInputs, settings \in BatchSettings :
       \E data_provider \in {prices, PriceProvider(prices)},
          curve_provider \in {curve, CurveProvider(curve)} :
        /\ call' = BatchCall(specs, data_provider, curve_provider, settings)
        /\ result' = price_batch(specs, data_provider, curve_provider, "hs", settings,
                                 globalRng)
        /\ UNCHANGED <<prices, curve, globalRng, obj, rerun, others>>

NextBatch == PriceBatch \/ Discard

SpecBatch == InitBatch /\ [][NextBatch]_vars

-----------------------------------------------------------------------------
(* reporting/tables.py, and a session that flattens the results it prices *)

valuation_to_frame(valuation) ==
    DataFrame(<<[contract_id |-> valuation.contract_id,
                 price |-> valuation.price,
                 currency |-> valuation.currency,
                 mean_payoff |-> valuation.mean_payoff,
                 stdev_payoff |-> valuation.stdev_payoff,
                 p5_payoff |-> valuation.p5_payoff,
                 p95_payoff |-> valuation.p95_payoff,
                 n_scenarios |-> valuation.n_scenarios,
                 model |-> valuation.model,
                 data_version |-> valuation.data_version]>>)

ReportedSpecs ==
    {from_dict(SpecDict(pair, 0, e, mw)).value :
        pair \in {<<"A", "B">>, <<"B", "A">>}, e \in {2, MaxEnd}, mw \in Capacities}

InitReport ==
    /\ prices \in {HistoryTable(MaxHistory), FlatTable(2, 4)}
    /\ curve \in {NoCurve, FlatCurve}
    /\ call = NoCall
    /\ result = NoResult
    /\ globalRng = OsSeeded
    /\ obj = NoObject
    /\ rerun = FALSE
    /\ others = 0

\* price_contract(contract_spec, prices_df, curve, settings=settings)
PriceReported ==
    /\ Idle
    /\ \E contract_spec \in ReportedSpecs, settings \in BatchSettings :
        /\ call' = [op |-> "price_contract", contract_spec |-> contract_spec,
                    model |-> "hs", settings |-> settings]
        /\ result' = price_contract(contract_spec, prices, curve, "hs", settings, globalRng)
        /\ UNCHANGED <<prices, curve, globalRng, obj, rerun, others>>

\* valuation_to_frame(result): the caller keeps the result and its table
Report ==
    /\ call.op = "price_contract"
    /\ IsOk(result)
    /\ obj' = [status |-> "ok", valuation |-> result.value,
               frame |-> valuation_to_frame(result.value)]
    /\ UNCHANGED <<prices, curve, call, result, globalRng, rerun, others>>

NextReport == PriceReported \/ Report \/ Discard

SpecReport == InitReport /\ [][NextReport]_vars

-----------------------------------------------------------------------------
(* The bootstrap sampler alone: a recorded call, other calls, the call again *)

\* more values than the hours of a one-day block
LongSeries == [i \in 1..(HoursPerDay + 1) |-> R(i)]

BootResiduals ==
    {<<>>, <<NaN>>, <<NaN, NaN>>, <<R(5)>>, <<NaN, R(1), NaN>>, <<R(1), R(-1)>>,
     <<R(0), NaN, R(2), R(-2)>>, LongSeries}

\* n_hours: none, a few, and more than a one-day block gives
BootHours == 0..MaxHours \cup {HoursPerDay + 2}

BootSettings ==
    {Settings(seed, n, days, "drop", "UTC") :
        seed \in Seeds, n \in 0..MaxScenarios, days \in 0..2}

InitBootstrap ==
    /\ prices = HistoryTable(0)
    /\ curve = NoCurve
    /\ IdleState

\* bootstrap_scenarios(residual_series, n_hours=n_hours, settings=settings)
Bootstrap ==
    /\ Idle
    /\ \E residual_series \in BootResiduals, n_hours \in BootHours, settings \in BootSettings :
        /\ call' = [op |-> "bootstrap_scenarios", residual_series |-> residual_series,
                    n_hours |-> n_hours, settings |-> settings]
        /\ result' = bootstrap_scenarios(residual_series, n_hours, settings, globalRng)
        /\ globalRng' = AfterBootstrap(globalRng,
                                       bootstrap_scenarios(residual_series, n_hours,
                                                           settings, globalRng))
    /\ UNCHANGED <<prices, curve, obj, rerun, others>>

\* bootstrap_scenarios again, with the arguments of the recorded call
BootstrapAgain ==
    /\ call.op = "bootstrap_scenarios"
    /\ ~rerun
    /\ result' = bootstrap_scenarios(call.residual_series, call.n_hours, call.settings,
                                     globalRng)
    /\ globalRng' = AfterBootstrap(globalRng,
                                   bootstrap_scenarios(call.residual_series, call.n_hours,
                                                       call.settings, globalRng))
    /\ rerun' = TRUE
    /\ UNCHANGED <<prices, curve, call, obj, others>>

NextBootstrap == Bootstrap \/ OtherBootstrap \/ BootstrapAgain \/ Discard

SpecBootstrap == InitBootstrap /\ [][NextBootstrap]_vars

-----------------------------------------------------------------------------
(* Local days: utc_index_for_local_day on every day of 2024 *)

Days == {Date(month, day) : month \in 1..12, day \in 1..31}

LocalDays == {date \in Days : date.day <= MonthDays[date.month]}

DayZones ==
    {"UTC", "Europe/London", "Europe/Brussels", "Europe/Berlin", "Europe/Helsinki",
     "Australia/Lord_Howe"}

InitDay ==
    /\ prices = HistoryTable(0)
    /\ curve = NoCurve
    /\ IdleState

\* utc_index_for_local_day(local_day, tz)
LocalDay ==
    /\ Idle
    /\ \E local_day \in LocalDays, tz \in DayZones :
        /\ call' = [op |-> "utc_index_for_local_day", local_day |-> local_day, tz |-> tz]
        /\ result' = Ok(utc_index_for_local_day(local_day, tz))
    /\ UNCHANGED <<prices, curve, globalRng, obj, rerun, others>>

NextDay == LocalDay \/ Discard

SpecDay == InitDay /\ [][NextDay]_vars

-----------------------------------------------------------------------------
(* Settings: constructed, changed by the caller, then handed to the sampler *)

ScenarioCounts == -1..MaxScenarios

BlockDays == 0..2

SeedValues == Seeds \cup {-1}

InitSettings ==
    /\ prices = HistoryTable(0)
    /\ curve = NoCurve
    /\ IdleState

\* FTRSettings(...), the object kept by the caller
ConstructSettings ==
    /\ Idle
    /\ \E n_scenarios \in ScenarioCounts, block_length_days \in BlockDays :
       \E seed \in SeedValues, missing_hour_policy \in Policies :
        /\ call' = [op |-> "FTRSettings", n_scenarios |-> n_scenarios,
                    block_length_days |-> block_length_days, seed |-> seed,
                    missing_hour_policy |-> missing_hour_policy]
        /\ result' = FTRSettings("UTC", n_scenarios, block_length_days, seed,
                                 missing_hour_policy)
        /\ obj' = FTRSettings("UTC", n_scenarios, block_length_days, seed,
                              missing_hour_policy)
    /\ UNCHANGED <<prices, curve, globalRng, rerun, others>>

\* settings.n_scenarios = v, settings.block_length_days = v or settings.seed = v
AssignField ==
    /\ call.op = "FTRSettings"
    /\ IsOk(obj)
    /\ others < MaxOthers
    /\ \E field \in {"n_scenarios", "block_length_days", "seed"}, value \in -1..1 :
        obj' = Ok(SetAttr(obj.value, field, value))
    /\ others' = others + 1
    /\ UNCHANGED <<prices, curve, call, result, globalRng, rerun>>

\* cli.py, _settings_from_options: the copy with another cache directory
CopySettings ==
    /\ call.op = "FTRSettings"
    /\ IsOk(obj)
    /\ obj.value.cache_dir # "cache"
    /\ obj' = Ok(model_copy(obj.value, "cache"))
    /\ UNCHANGED <<prices, curve, call, result, globalRng, rerun, others>>

\* bootstrap_scenarios(residual_series, n_hours=n_hours, settings=settings)
BootstrapWith ==
    /\ call.op = "FTRSettings"
    /\ IsOk(obj)
    /\ \E residual_series \in OtherResiduals, n_hours \in 1..2 :
        /\ call' = [op |-> "bootstrap_scenarios", residual_series |-> residual_series,
                    n_hours |-> n_hours, settings |-> obj.value]
        /\ result' = bootstrap_scenarios(residual_series, n_hours, obj.value, globalRng)
    /\ UNCHANGED <<prices, curve, globalRng, obj, rerun, others>>

\* the caller drops the settings and the outcome it holds
DropSettings ==
    /\ ~Idle
    /\ call' = NoCall
    /\ result' = NoResult
    /\ obj' = NoObject
    /\ others' = 0
    /\ UNCHANGED <<prices, curve, globalRng, rerun>>

NextSettings ==
    ConstructSettings \/ AssignField \/ CopySettings \/ BootstrapWith \/ DropSettings

SpecSettings == InitSettings /\ [][NextSettings]_vars

-----------------------------------------------------------------------------
(* eicflows/transform.py: standardize_direction on tables of flows *)

ErrDirection == "Cannot standardize direction"

FlowRow(ts, mw) == [ts |-> ts, mw |-> mw]

\* flipped["mw"] = -flipped["mw"]
Negated(rows) == [i \in 1..Len(rows) |-> [rows[i] EXCEPT !.mw = RNeg(@)]]

\* What a call leaves behind: the table returned, whether it is the caller's
\* own object, and the caller's table after the call
Returned2(value, is_input, df_after) ==
    [status |-> "ok", value |-> value, is_input |-> is_input, df_after |-> df_after]

\* as Flipped, the caller's table negated in place and returned
Flipped_inplace(df) ==
    Returned2([df EXCEPT !.rows = Negated(@)], TRUE, [df EXCEPT !.rows = Negated(@)])

\* lines 30-32: a copy is negated, the caller's table is left alone
Flipped(df) == Returned2([df EXCEPT !.rows = Negated(@)], FALSE, df)

standardize_direction(df, extracted_from_zone, extracted_to_zone, desired_from_zone, desired_to_zone) ==
    IF extracted_from_zone = desired_from_zone /\ extracted_to_zone = desired_to_zone
    THEN Returned2(df, TRUE, df)
    ELSE IF extracted_from_zone = desired_to_zone /\ extracted_to_zone = desired_from_zone
    THEN Flipped(df)
    ELSE [status |-> "raised", exc |-> "ValueError", msg |-> ErrDirection, df_after |-> df]

FlowColumns == {"timestamp_utc", "mw"}

FlowTables ==
    {Table(FlowColumns, FALSE, rows) :
        rows \in {<<>>, <<FlowRow(0, R(100))>>, <<FlowRow(0, R(0)), FlowRow(2, NaN)>>,
                  <<FlowRow(2, R(-3)), FlowRow(0, R(5)), FlowRow(4, R(-3))>>}}

BiddingZones == {"BE", "NL", "DE"}

InitDirection ==
    /\ prices \in FlowTables
    /\ curve = NoCurve
    /\ IdleState

\* standardize_direction(df, extracted_from_zone=..., ..., desired_to_zone=...)
StandardizeDirection ==
    /\ Idle
    /\ \E extracted_from_zone \in BiddingZones, extracted_to_zone \in BiddingZones :
       \E desired_from_zone \in BiddingZones, desired_to_zone \in BiddingZones :
        /\ call' = [op |-> "standardize_direction", df |-> prices,
                    extracted |-> <<extracted_from_zone, extracted_to_zone>>,
                    desired |-> <<desired_from_zone, desired_to_zone>>]
        /\ result' = standardize_direction(prices, extracted_from_zone, extracted_to_zone,
                                           desired_from_zone, desired_to_zone)
        /\ prices' = standardize_direction(prices, extracted_from_zone, extracted_to_zone,
                                           desired_from_zone, desired_to_zone).df_after
    /\ UNCHANGED <<curve, globalRng, obj, rerun, others>>

NextDirection == StandardizeDirection \/ Discard

SpecDirection == InitDirection /\ [][NextDirection]_vars

-----------------------------------------------------------------------------
(* eicflows/entsoe_client.py: EntsoeClient._retry, one step at a time *)

NoException == [exc |-> "None"]

\* What a call of the wrapped request does: it returns, raises an Exception,
\* or raises a BaseException that is not an Exception
FnOutcomes ==
    {[kind |-> "returns", value |-> "series"],
     [kind |-> "Exception", exc |-> "ConnectionError"],
     [kind |-> "Exception", exc |-> "HTTPError"],
     [kind |-> "BaseException", exc |-> "KeyboardInterrupt"]}

\* backoff_base_seconds of the clients tried: the dataclass checks nothing
Backoffs == {R(1), <<1, 2>>, R(0), R(-1)}

\* the frame of a running _retry: the loop variable, where the call stands,
\* last_exc, and what has been done so far (calls of fn, waits)
Frame(attempt, pc, last_exc, calls, sleeps) ==
    [status |-> "running", attempt |-> attempt, pc |-> pc, last_exc |-> last_exc,
     calls |-> calls, sleeps |-> sleeps]

\* the frame of a call that has ended
Ended(frame) == [frame EXCEPT !.status = "ended", !.pc = "done"]

Running == obj.status = "running"

\* as IsLastAttempt, the loop never left early
IsLastAttempt_never(attempt, max_attempts) == FALSE

\* if attempt >= self.max_attempts: break
IsLastAttempt(attempt, max_attempts) == attempt >= max_attempts

\* self.backoff_base_seconds * (2 ** (attempt - 1))
SleepSeconds(backoff_base_seconds, attempt) == RMul(backoff_base_seconds, R(2 ^ (attempt - 1)))

\* raise EntsoeError(...) from last_exc
EntsoeError(last_exc) ==
    [status |-> "raised", exc |-> "EntsoeError", msg |-> "ENTSO-E request failed",
     cause |-> last_exc]

\* an exception that leaves _retry as it is
Escapes(exc) == [status |-> "raised", exc |-> exc, msg |-> "", cause |-> NoException]

InitRetry ==
    /\ prices = HistoryTable(0)
    /\ curve = NoCurve
    /\ IdleState

\* client._retry(fn, ...) is entered: last_exc = None, the loop starts at 1
EnterRetry ==
    /\ Idle
    /\ \E max_attempts \in 0..MaxAttempts, backoff_base_seconds \in Backoffs :
        call' = [op |-> "_retry", max_attempts |-> max_attempts,
                 backoff_base_seconds |-> backoff_base_seconds]
    /\ obj' = Frame(1, "for", NoException, <<>>, <<>>)
    /\ UNCHANGED <<prices, curve, result, globalRng, rerun, others>>

\* return fn(*args, **kwargs): fn returns
FnReturns(outcome) ==
    /\ outcome.kind = "returns"
    /\ result' = Ok(outcome.value)
    /\ obj' = Ended([obj EXCEPT !.calls = Append(@, outcome)])

\* fn raises something "except Exception" does not catch
FnInterrupted(outcome) ==
    /\ outcome.kind = "BaseException"
    /\ result' = Escapes(outcome.exc)
    /\ obj' = Ended([obj EXCEPT !.calls = Append(@, outcome)])

\* except Exception as exc: last_exc = exc, then break or go on to the wait
FnFails(outcome) ==
    /\ outcome.kind = "Exception"
    /\ result' = result
    /\ obj' = [obj EXCEPT !.calls = Append(@, outcome),
                          !.last_exc = [exc |-> outcome.exc],
                          !.pc = IF IsLastAttempt(obj.attempt, call.max_attempts)
                                 THEN "raise" ELSE "sleep"]

\* one pass of the loop body up to the end of the call of fn
Attempt ==
    /\ Running /\ obj.pc = "for"
    /\ obj.attempt <= call.max_attempts
    /\ \E outcome \in FnOutcomes :
        FnReturns(outcome) \/ FnInterrupted(outcome) \/ FnFails(outcome)
    /\ UNCHANGED <<prices, curve, call, globalRng, rerun, others>>

\* time.sleep(sleep_s), which raises ValueError for a negative length; then
\* the next value of the loop variable
Sleep ==
    /\ Running /\ obj.pc = "sleep"
    /\ IF RLess(SleepSeconds(call.backoff_base_seconds, obj.attempt), R(0))
       THEN /\ result' = Escapes("ValueError")
            /\ obj' = Ended(obj)
       ELSE /\ result' = result
            /\ obj' = [obj EXCEPT !.sleeps = Append(@, SleepSeconds(call.backoff_base_seconds,
                                                                   obj.attempt)),
                                  !.attempt = @ + 1, !.pc = "for"]
    /\ UNCHANGED <<prices, curve, call, globalRng, rerun, others>>

\* the loop is over (break, or range exhausted): raise EntsoeError from last_exc
Exhausted ==
    /\ Running
    /\ obj.pc = "raise" \/ (obj.pc = "for" /\ obj.attempt > call.max_attempts)
    /\ result' = EntsoeError(obj.last_exc)
    /\ obj' = Ended(obj)
    /\ UNCHANGED <<prices, curve, call, globalRng, rerun, others>>

\* the caller drops the outcome of a call that has ended
ForgetRetry ==
    /\ call.op = "_retry"
    /\ result # NoResult
    /\ call' = NoCall
    /\ result' = NoResult
    /\ obj' = NoObject
    /\ UNCHANGED <<prices, curve, globalRng, rerun, others>>

NextRetry == EnterRetry \/ Attempt \/ Sleep \/ Exhausted \/ ForgetRetry

SpecRetry == InitRetry /\ [][NextRetry]_vars

\* fn and time.sleep return or raise: a step of a running call is taken
FairRetry == SpecRetry /\ WF_vars(Attempt) /\ WF_vars(Sleep) /\ WF_vars(Exhausted)

-----------------------------------------------------------------------------
(* What the claims speak of, read off the state after a price_contract call *)

Priced1 == call.op = "price_contract"

Returned == Priced1 /\ IsOk(result)

\* the spread series of the call's contract, as compute_spread_series gives it
CallSpread ==
    compute_spread_series(prices, call.contract_spec.source, call.contract_spec.sink,
                          call.settings.tz_in, call.settings.missing_hour_policy)

\* the number of whole-hour steps start, start + 1h, ... strictly before end
StepsBefore(start, end) == Cardinality({k \in 0..(MaxEnd + 1) : start + k * HourTicks < end})

CallSteps == StepsBefore(call.contract_spec.start_utc.wall, call.contract_spec.end_utc.wall)

\* the sum of the values present divided by their number
PlainMean(xs) ==
    RDivInt(SeqSum(SelectSeq(xs, LAMBDA x : ~IsNaN(x))),
            Len(SelectSeq(xs, LAMBDA x : ~IsNaN(x))))

\* the curve the call used: the prepared curve, or the flat mean of the spread
UsedCurve(spread, n) ==
    IF curve = NoCurve THEN [h \in 1..n |-> PlainMean(spread)]
    ELSE Values(prepare_curve(curve, hourly_index_utc(call.contract_spec.start_utc,
                                                      call.contract_spec.end_utc),
                              call.settings.tz_in).value)

Centered(spread, m) == [i \in 1..Len(spread) |-> RSub(spread[i], m)]

\* mw times the mean over the scenarios of the sum over hours of curve + scenario
ExpectedPrice(mw, base, scenarios) ==
    RMul(mw,
         PlainMean([k \in 1..Len(scenarios) |->
                       SeqSum([h \in 1..Len(base) |-> RAdd(base[h], scenarios[k][h])])]))

BootstrapExpectation(spread, n) ==
    ExpectedPrice(call.contract_spec.mw, UsedCurve(spread, n),
                  bootstrap_scenarios(Centered(spread, PlainMean(spread)), n,
                                      call.settings, globalRng).value.scenarios)

(* C1: price_contract is deterministic: a call repeated with the arguments
   of a recorded call gives the recorded outcome again, a ValuationResult equal
   in every field, whatever pricing or bootstrap calls were made before or
   between the two. *)
C1_RepeatedCallSameResult ==
    [][(rerun' /\ ~rerun)
       => /\ result'.status = result.status
          /\ IsOk(result) => result'.value = result.value
          /\ ~IsOk(result) => result' = result]_vars

C1_Witness ==
    /\ rerun
    /\ others >= 1
    /\ IsOk(result)
    /\ result.value.n_scenarios >= 2
    /\ result.value.stdev_payoff # Sqrt(R(0))
    /\ ~IsNaN(result.value.price)

(* C2: for an obligation contract the price that price_contract returns is mw
   times the mean, over the scenarios bootstrap_scenarios gives for the
   centred spread and the number of contract hours, of the sum over the hours
   of curve[h] + scenario[h]; and the price equals mean_payoff. *)
C2_PriceIsBootstrapExpectation ==
    Returned =>
        /\ result.value.price = BootstrapExpectation(Values(CallSpread.value), CallSteps)
        /\ result.value.price = result.value.mean_payoff

C2_Witness ==
    /\ Returned
    /\ result.value.n_scenarios >= 2
    /\ result.value.metadata.hours >= 2
    /\ call.contract_spec.mw = R(-1)
    /\ curve # NoCurve
    /\ result.value.stdev_payoff # Sqrt(R(0))
    /\ result.value.price # R(0)
    /\ ~IsNaN(result.value.price)

\* every value of the spread series is the same number
ConstantSpread(spread) ==
    /\ spread # <<>>
    /\ \A i \in 1..Len(spread) : ~IsNaN(spread[i]) /\ spread[i] = spread[1]

\* the curve table has a value at one contract hour at least
CurveKnown(base) == \E h \in 1..Len(base) : ~IsNaN(base[h])

(* C3: obligation payoffs are not floored at zero: with a constant spread
   history and a supplied curve, the price is mw times the sum of the curve's
   values over the contract hours, negative when the curve is, and
   stdev_payoff is 0, for any n_scenarios. *)
C3_ConstantHistoryPricesTheCurve ==
    (/\ Returned
     /\ curve # NoCurve
     /\ ConstantSpread(Values(CallSpread.value)))
    => /\ result.value.price
            = RMul(call.contract_spec.mw, SeqSum(UsedCurve(<<>>, CallSteps)))
       /\ result.value.stdev_payoff = Sqrt(R(0))

(* C3, where the curve table has a value at one contract hour at least: the
   price is mw times the sum of the curve's values and stdev_payoff is 0. *)
C3_WhereCurveKnown ==
    (/\ Returned
     /\ curve # NoCurve
     /\ ConstantSpread(Values(CallSpread.value))
     /\ CurveKnown(UsedCurve(<<>>, CallSteps)))
    => /\ result.value.price
            = RMul(call.contract_spec.mw, SeqSum(UsedCurve(<<>>, CallSteps)))
       /\ result.value.stdev_payoff = Sqrt(R(0))

\* a constant history priced on two hours of curve -5: -10 * mw
C3_Witness ==
    /\ Returned
    /\ curve = FlatCurve
    /\ ConstantSpread(Values(CallSpread.value))
    /\ call.contract_spec.mw = R(2)
    /\ call.settings.n_scenarios = 2
    /\ result.value.metadata.hours = 2
    /\ result.value.price = R(-20)
    /\ result.value.stdev_payoff = Sqrt(R(0))

(* C4: every ValuationResult has n_scenarios equal to settings.n_scenarios and
   metadata.hours equal to the number of whole-hour steps from start_utc that
   are strictly before end_utc. *)
C4_ScenarioAndHourCounts ==
    Returned =>
        /\ result.value.n_scenarios = call.settings.n_scenarios
        /\ result.value.metadata.hours = CallSteps

C4_Witness ==
    /\ Returned
    /\ call.contract_spec.start_utc.wall = 1
    /\ call.contract_spec.end_utc.wall = 4
    /\ result.value.metadata.hours = 2
    /\ result.value.n_scenarios = 2

(* C5: no ContractSpec with a contract_type other than obligation exists:
   from_dict and direct construction fail with the contract-type error for
   "option", succeed for "obligation" and (from_dict) for a record without the
   key; every constructed ContractSpec has contract_type obligation, so the
   contract price_contract is given never satisfies the condition of the
   floor-at-zero branch of _payoff. *)
C5_OnlyObligationsExist ==
    /\ (call.op = "from_dict" /\ "contract_type" \in DOMAIN call.data
            /\ call.data.contract_type = "option")
       => obj = Raise(ErrContractType)
    /\ (call.op = "from_dict" /\ "contract_type" \in DOMAIN call.data
            /\ call.data.contract_type = "obligation")
       => IsOk(obj)
    /\ (call.op = "from_dict" /\ "contract_type" \notin DOMAIN call.data) => IsOk(obj)
    /\ (call.op = "ContractSpec" /\ call.contract_type = "option")
       => obj = Raise(ErrContractType)
    /\ (call.op = "ContractSpec" /\ call.contract_type = "obligation") => IsOk(obj)
    /\ IsOk(obj) => obj.value.contract_type = "obligation"
    /\ call.op = "price_contract" => call.contract_spec.contract_type # "option"

C5_Witness ==
    /\ call.op = "from_dict"
    /\ "contract_type" \in DOMAIN call.data
    /\ call.data.contract_type = "option"
    /\ obj = Raise(ErrContractType)
    /\ result = NoResult

\* the instant of a row of the price table, as the call reads it
Instant(r) == IF prices.naive THEN r.ts - TzOffset(call.tz_in) ELSE r.ts

\* the instants at which the table has a row of the node
ObservedAt(node) ==
    {Instant(prices.rows[i]) : i \in {j \in 1..Len(prices.rows) : prices.rows[j].node = node}}

\* the prices of the node's rows at an instant, in row order
PricesAt(node, t) ==
    [i \in 1..Len(SelectSeq(prices.rows, LAMBDA r : r.node = node /\ Instant(r) = t)) |->
        SelectSeq(prices.rows, LAMBDA r : r.node = node /\ Instant(r) = t)[i].price]

(* C6: under the drop policy compute_spread_series returns a series whose
   instants are exactly those observed for both the source and the sink, in
   strictly ascending order, the value at each being the mean of the sink's
   rows there minus the mean of the source's rows there. *)
C6_DropKeepsTheIntersection ==
    (call.op = "compute_spread_series" /\ call.missing_policy = "drop" /\ IsOk(result))
    => /\ Index(result.value) = ObservedAt(call.source) \cap ObservedAt(call.sink)
       /\ \A i, j \in 1..Len(result.value) :
            i < j => result.value[i].t < result.value[j].t
       /\ \A i \in 1..Len(result.value) :
            result.value[i].v
                = RSub(PlainMean(PricesAt(call.sink, result.value[i].t)),
                       PlainMean(PricesAt(call.source, result.value[i].t)))

C6_Witness ==
    /\ call.op = "compute_spread_series"
    /\ call.missing_policy = "drop"
    /\ IsOk(result)
    /\ Len(result.value) = 2
    /\ ObservedAt(call.source) \ ObservedAt(call.sink) # {}
    /\ ObservedAt(call.sink) \ ObservedAt(call.source) # {}
    /\ \E i \in 1..Len(prices.rows) - 1 : prices.rows[i].ts > prices.rows[i + 1].ts
    /\ \E i \in 1..2 : result.value[i].v[2] = 2

(* C7: with curve=None the curve used has one entry per contract hour, every
   entry the mean of the whole spread series, so that metadata.curve_mean
   equals metadata.spread_mean. *)
C7_FlatCurveFallback ==
    (Priced1 /\ curve = NoCurve /\ IsOk(CallSpread))
    => /\ IsOk(CurveSeries(NoCurve,
                           hourly_index_utc(call.contract_spec.start_utc,
                                            call.contract_spec.end_utc),
                           call.settings, Values(CallSpread.value)))
       /\ Values(CurveSeries(NoCurve,
                             hourly_index_utc(call.contract_spec.start_utc,
                                              call.contract_spec.end_utc),
                             call.settings, Values(CallSpread.value)).value)
            = [h \in 1..CallSteps |-> PlainMean(Values(CallSpread.value))]
       /\ IsOk(result) =>
            /\ result.value.metadata.curve_mean = result.value.metadata.spread_mean
            /\ result.value.metadata.curve_mean = PlainMean(Values(CallSpread.value))

C7_Witness ==
    /\ Returned
    /\ curve = NoCurve
    /\ result.value.metadata.hours = 2
    /\ result.value.metadata.curve_mean = <<8, 3>>
    /\ result.value.metadata.spread_mean = <<8, 3>>

(* C8: for every curve table with a timestamp column and a spread or
   expected_spread column, and every non-empty sequence of contract hours,
   prepare_curve returns a series indexed by exactly the contract hours with
   no missing value at any hour. *)
C8_NoMissingCurveValue ==
    (/\ call.op = "prepare_curve"
     /\ curve.columns \cap {"timestamp_utc", "timestamp"} # {}
     /\ curve.columns \cap {"spread", "expected_spread"} # {}
     /\ call.contract_hours # <<>>)
    => /\ IsOk(result)
       /\ [i \in 1..Len(result.value) |-> result.value[i].t] = call.contract_hours
       /\ \A i \in 1..Len(result.value) : ~IsNaN(result.value[i].v)

(* C9: price_contract validates the model first: for every model other than
   "hs" the call fails with the unsupported-model error, whatever the price
   table and the curve contain. *)
C9_ModelValidatedFirst ==
    (Priced1 /\ call.model # "hs")
    => (result.status = "raised" /\ result.msg = ErrModel)

\* the table has no row of the node
Absent(node) == \A i \in 1..Len(prices.rows) : prices.rows[i].node # node

DataErrors == {ErrNoPrices, ErrNoTimestamp}

(* C10: when the price table has no rows for the contract's source node or
   for its sink node, compute_spread_series and price_contract fail with a
   data error: no scenario is generated and no ValuationResult is returned. *)
C10_AbsentNodeFails ==
    (Priced1 /\ (Absent(call.contract_spec.source) \/ Absent(call.contract_spec.sink)))
    => /\ ~IsOk(CallSpread)
       /\ CallSpread.msg \in DataErrors
       /\ result.status = "raised"
       /\ result.msg \in DataErrors
       /\ DOMAIN result = {"status", "exc", "msg"}
       /\ globalRng = OsSeeded

C10_Witness ==
    /\ Priced1
    /\ call.model = "hs"
    /\ call.contract_spec.source = "A"
    /\ call.contract_spec.sink = "C"
    /\ ~Absent("A")
    /\ "timestamp_utc" \in prices.columns
    /\ result.status = "raised"
    /\ result.msg = ErrNoPrices

\* every value of the sequence is missing (an empty sequence included)
AllMissing(xs) == \A i \in 1..Len(xs) : IsNaN(xs[i])

(* C11: price_contract fails, and returns no ValuationResult, whenever the
   aligned spread series is empty or all-missing, or the supplied curve is
   all-missing over the contract hours; it never returns a result whose price
   is a missing value. *)
C11_NoMissingPrice ==
    /\ (Priced1 /\ IsOk(CallSpread) /\ AllMissing(Values(CallSpread.value)))
       => result.status = "raised"
    /\ (Priced1 /\ call.model = "hs" /\ curve # NoCurve /\ IsOk(CallSpread)
            /\ IsOk(prepare_curve(curve, hourly_index_utc(call.contract_spec.start_utc,
                                                          call.contract_spec.end_utc),
                                  call.settings.tz_in))
            /\ AllMissing(UsedCurve(<<>>, CallSteps)))
       => result.status = "raised"
    /\ Returned => ~IsNaN(result.value.price)

\* the step is a second compute_data_version call after a first
SecondVersion == call.op = "compute_data_version" /\ ~rerun /\ rerun'

\* the bytes of the files, in order, without their paths
Contents(file_paths) == [i \in 1..Len(file_paths) |-> file_paths[i].bytes]

\* what a table holds: its column names and its rows' cells, in row order
FrameContent(df) ==
    [columns |-> df.columns, rows |-> [i \in 1..Len(df.rows) |-> Cells(df, df.rows[i])]]

FrameContents(dataframes) == [i \in 1..Len(dataframes) |-> FrameContent(dataframes[i])]

(* C12: compute_data_version gives the same digest for identical code_version,
   settings, tables and files, and a different digest when the code_version,
   a settings field, or a table's content differs: a cell, a column name, a
   row added or removed, the rows in another order. *)
C12_DigestTracksContent ==
    [][SecondVersion
       => /\ call' = call => result' = result
          /\ (\/ call'.code_version # call.code_version
              \/ call'.settings # call.settings
              \/ Contents(call'.file_paths) # Contents(call.file_paths)
              \/ FrameContents(call'.dataframes) # FrameContents(call.dataframes))
             => result' # result]_vars

(* C13: compute_data_version depends only on code_version, settings and the
   contents of the files and tables: equal code_version, settings and tables,
   and files of identical bytes, give the same digest, whatever the files'
   paths. *)
C13_DigestIgnoresPaths ==
    [][SecondVersion
       => ((/\ call'.code_version = call.code_version
            /\ call'.settings = call.settings
            /\ call'.dataframes = call.dataframes
            /\ Contents(call'.file_paths) = Contents(call.file_paths))
           => result' = result)]_vars

-----------------------------------------------------------------------------
(* What the claims speak of, read off the state after a price_batch call *)

IsBatch == call.op = "price_batch"

\* the elements of specs as the caller gave them
Inputs ==
    IF "records" \in DOMAIN call.specs
    THEN [i \in 1..Len(call.specs.records) |-> AsDict(call.specs.records[i])]
    ELSE call.specs.items

\* the contract an element stands for
InputSpec(item) ==
    IF "spec" \in DOMAIN item THEN item.spec
    ELSE [source |-> item.dict.source, sink |-> item.dict.sink,
          start_utc |-> parse_datetime_utc(item.dict.start_utc),
          end_utc |-> parse_datetime_utc(item.dict.end_utc),
          mw |-> Float(item.dict.mw),
          contract_type |-> DictGet(item.dict, "contract_type", "obligation"),
          contract_id |-> DictGet(item.dict, "contract_id", NoId)]

\* every element is a contract or converts to one
AllConvert == \A i \in 1..Len(Inputs) : IsOk(NormalizeItem(Inputs[i]))

\* the i-th contract priced on its own with the tables the providers give it
Alone(i) ==
    price_contract(InputSpec(Inputs[i]), Provide(call.data_provider, InputSpec(Inputs[i])),
                   Provide(call.curve, InputSpec(Inputs[i])), call.model, call.settings,
                   globalRng)

EveryContractPrices == AllConvert /\ \A i \in 1..Len(Inputs) : IsOk(Alone(i))

CarriesSpec(row, spec) ==
    /\ row.source = spec.source
    /\ row.sink = spec.sink
    /\ row.start_utc = spec.start_utc
    /\ row.end_utc = spec.end_utc
    /\ row.mw = spec.mw
    /\ row.contract_id = spec.contract_id

CarriesValuation(row, valuation) ==
    /\ row.price = valuation.price
    /\ row.mean_payoff = valuation.mean_payoff
    /\ row.stdev_payoff = valuation.stdev_payoff
    /\ row.p5_payoff = valuation.p5_payoff
    /\ row.p95_payoff = valuation.p95_payoff
    /\ row.n_scenarios = valuation.n_scenarios
    /\ row.model = valuation.model
    /\ row.data_version = valuation.data_version

(* C14: when every contract prices successfully, price_batch returns one row
   per input spec in input order: row i carries the source, sink, start_utc,
   end_utc, mw and contract_id of the i-th input spec and that spec's
   valuation, for a sequence of specs and for a table of specs. *)
C14_OneRowPerSpecInOrder ==
    (IsBatch /\ EveryContractPrices) =>
        /\ IsOk(result)
        /\ Len(result.value.rows) = Len(Inputs)
        /\ \A i \in 1..Len(Inputs) :
            /\ CarriesSpec(result.value.rows[i], InputSpec(Inputs[i]))
            /\ CarriesValuation(result.value.rows[i], Alone(i).value)

\* a table of two different contracts, both priced, the tables from providers
C14_Witness ==
    /\ IsBatch /\ EveryContractPrices
    /\ "records" \in DOMAIN call.specs
    /\ Len(Inputs) >= 2
    /\ InputSpec(Inputs[1]) # InputSpec(Inputs[2])
    /\ IsCallable(call.data_provider)
    /\ IsOk(result) /\ Len(result.value.rows) = Len(Inputs)

\* the contracts that fail when priced on their own
Failing == {i \in 1..Len(Inputs) : ~IsOk(Alone(i))}

FirstFailing == CHOOSE k \in Failing : \A i \in Failing : k <= i

FirstSpecs(k) == [i \in 1..k |-> InputSpec(Inputs[i])]

CalledFor(provider, k) == IF IsCallable(provider) THEN FirstSpecs(k) ELSE <<>>

(* C15: price_batch fails fast: when pricing the k-th contract raises, that
   error reaches the caller, no result table is returned, and neither
   provider is called for a contract after the k-th. *)
C15_FailsFast ==
    (IsBatch /\ AllConvert /\ Failing # {}) =>
        /\ result.status = "raised"
        /\ "value" \notin DOMAIN result
        /\ result.exc = Alone(FirstFailing).exc
        /\ result.msg = Alone(FirstFailing).msg
        /\ result.log.priced = FirstSpecs(FirstFailing)
        /\ result.log.price_calls = CalledFor(call.data_provider, FirstFailing)
        /\ result.log.curve_calls = CalledFor(call.curve, FirstFailing)

\* the first of two contracts fails, the second would have priced
C15_Witness ==
    /\ IsBatch /\ AllConvert
    /\ Len(Inputs) = 2
    /\ IsCallable(call.data_provider) /\ IsCallable(call.curve)
    /\ Failing = {1}
    /\ result.status = "raised"
    /\ Len(result.log.price_calls) = FirstFailing

ValuationFields ==
    {"contract_id", "price", "currency", "mean_payoff", "stdev_payoff", "p5_payoff",
     "p95_payoff", "n_scenarios", "model", "data_version", "hours", "spread_mean",
     "curve_mean"}

ContractFields ==
    {"source", "sink", "start_utc", "end_utc", "mw", "contract_type", "contract_id"}

(* C16: every row returned by price_batch contains every field of
   ValuationResult (currency and the metadata entries hours, spread_mean,
   curve_mean among them) plus every field of the originating ContractSpec. *)
C16_RowsHaveEveryField ==
    (IsBatch /\ IsOk(result)) =>
        \A i \in 1..Len(result.value.rows) :
            ValuationFields \cup ContractFields \subseteq DOMAIN result.value.rows[i]

\* the fields of the contract alone are all there
C16_ContractFieldsPresent ==
    (IsBatch /\ IsOk(result)) =>
        \A i \in 1..Len(result.value.rows) :
            ContractFields \subseteq DOMAIN result.value.rows[i]

C16_Witness == IsBatch /\ IsOk(result) /\ Len(result.value.rows) >= 1

\* a second result is flattened while the table of an earlier one is held
SecondReport == obj.status = "ok" /\ obj' # obj

(* C17: valuation_to_frame is lossless: every documented field of the
   ValuationResult, metadata (hours, spread_mean, curve_mean) included, can be
   recovered from the one-row table, so two results that differ in a
   documented field flatten to different rows. *)
C17_DifferentResultsDifferentRows ==
    [][(SecondReport /\ obj'.valuation # obj.valuation) => obj'.frame # obj.frame]_vars

\* the same for results that differ in a field other than metadata
C17_OutsideMetadata ==
    [][(SecondReport /\ Without(obj'.valuation, "metadata") # Without(obj.valuation, "metadata"))
        => obj'.frame # obj.frame]_vars

\* two results with different metadata have been flattened
C17_Witness ==
    /\ obj.status = "ok" /\ IsOk(result)
    /\ call.op = "price_contract"
    /\ result.value.metadata # obj.valuation.metadata
    /\ obj.frame = valuation_to_frame(result.value)

-----------------------------------------------------------------------------
(* What the claims speak of, read off the state after a bootstrap_scenarios call *)

IsBootstrap == call.op = "bootstrap_scenarios"

(* C18: bootstrap_scenarios keeps no state between calls: a call repeated
   with the residual series, n_hours, seed, n_scenarios and block_length_days
   of a recorded call returns the recorded scenario list again (or fails the
   same way), whatever bootstrap calls with other seeds were made in between. *)
C18_RepeatedBootstrapSameScenarios ==
    [][(IsBootstrap /\ rerun' /\ ~rerun)
       => /\ result'.status = result.status
          /\ IsOk(result) => result'.value.scenarios = result.value.scenarios
          /\ ~IsOk(result) => result' = result]_vars

\* a call that drew more than once per scenario was repeated after another call
C18_Witness ==
    /\ IsBootstrap /\ rerun
    /\ others >= 1
    /\ IsOk(result)
    /\ Len(result.value.scenarios) >= 2
    /\ result.value.scenarios[1] # result.value.scenarios[2]
    /\ result.value.rng_end.pos > Len(result.value.scenarios)

\* the series has a value that is not missing
HasValue(xs) == \E i \in 1..Len(xs) : ~IsNaN(xs[i])

Present(xs) == Cardinality({i \in 1..Len(xs) : ~IsNaN(xs[i])})

\* settings.block_length_days * 24, no longer than the values left
BlockHours == Min(call.settings.block_length_days * HoursPerDay, Present(call.residual_series))

\* blocks needed for n_hours values
BlocksNeeded == (call.n_hours + BlockHours - 1) \div BlockHours

BootstrapInScope ==
    /\ IsBootstrap
    /\ HasValue(call.residual_series)
    /\ call.n_hours >= 1
    /\ call.settings.block_length_days >= 1

(* C19: for every residual series with a non-missing value, every
   n_hours >= 1 and every block_length_days >= 1 (block lengths equal to or
   larger than the series length included) bootstrap_scenarios terminates,
   after one draw per block needed, and returns exactly settings.n_scenarios
   scenarios, each of exactly n_hours values. *)
C19_ScenarioCountAndLength ==
    BootstrapInScope =>
        /\ IsOk(result)
        /\ Len(result.value.scenarios) = call.settings.n_scenarios
        /\ \A k \in 1..Len(result.value.scenarios) :
            Len(result.value.scenarios[k]) = call.n_hours
        /\ result.value.rng_end.pos = call.settings.n_scenarios * BlocksNeeded

\* a block that overshoots n_hours and wraps around the end of the series
C19_Witness ==
    /\ BootstrapInScope
    /\ IsOk(result)
    /\ call.settings.block_length_days * HoursPerDay >= Present(call.residual_series)
    /\ Present(call.residual_series) >= 2
    /\ BlocksNeeded >= 2
    /\ call.n_hours % BlockHours # 0
    /\ Len(result.value.scenarios) >= 2

\* the block shorter than the series, more than one block drawn
C19_WitnessShortBlock ==
    /\ BootstrapInScope
    /\ IsOk(result)
    /\ BlockHours < Present(call.residual_series)
    /\ BlocksNeeded >= 2
    /\ Len(result.value.scenarios) >= 1

-----------------------------------------------------------------------------
(* What the claims speak of, read off the state after utc_index_for_local_day *)

IsLocalDay == call.op = "utc_index_for_local_day"

\* a wall-clock time falls on the local calendar day of the call
OnCalledDay(wall) ==
    /\ WallTicks(call.local_day, 0, 0) <= wall
    /\ wall < WallTicks(call.local_day, 0, 0) + HoursPerDay * HourTicks

\* the day on which the zone's clocks go forward, and the one they go back
SpringForwardDay ==
    ZoneInfo(call.tz).shift # 0 /\ OnCalledDay(ZoneInfo(call.tz).begins + ZoneInfo(call.tz).std)

FallBackDay ==
    ZoneInfo(call.tz).shift # 0 /\ OnCalledDay(ZoneInfo(call.tz).ends + ZoneInfo(call.tz).std)

ExpectedInstants == IF SpringForwardDay THEN 23 ELSE IF FallBackDay THEN 25 ELSE 24

OneHourApart(index) == \A i \in 1..(Len(index) - 1) : index[i + 1] - index[i] = HourTicks

\* the instants named by the claim for the two zones it names
NamedDaysAgree ==
    call.tz \in {"Europe/Brussels", "Europe/Berlin"} =>
        /\ call.local_day = Date(3, 31) => Len(result.value) = 23
        /\ call.local_day = Date(10, 27) => Len(result.value) = 25

\* every instant lies in the local day, the first at its midnight
WithinTheDay(index) ==
    /\ index[1] + ZoneInfo(call.tz).std + (IF InDst(ZoneInfo(call.tz), index[1]) THEN ZoneInfo(call.tz).shift ELSE 0) = WallTicks(call.local_day, 0, 0)
    /\ \A i \in 1..Len(index) :
        OnCalledDay(index[i] + ZoneInfo(call.tz).std
                    + (IF InDst(ZoneInfo(call.tz), index[i]) THEN ZoneInfo(call.tz).shift ELSE 0))

(* C20: utc_index_for_local_day returns the UTC instants of every hour of
   the local calendar day: 24 instants on a normal day, 23 on the
   spring-forward day and 25 on the fall-back day of a DST timezone
   (Europe/Brussels and Europe/Berlin: 2024-03-31 gives 23, 2024-10-27 gives
   25), consecutive instants exactly one hour apart. *)
C20_HoursOfLocalDay ==
    IsLocalDay =>
        /\ Len(result.value) = ExpectedInstants
        /\ OneHourApart(result.value)
        /\ NamedDaysAgree

(* C20, for the zones whose clocks shift by a whole hour (or not at all): the
   counts 24, 23 and 25, the instants one hour apart and within the local
   day, the first at local midnight. *)
C20_WholeHourZones ==
    (IsLocalDay /\ ZoneInfo(call.tz).shift \in {0, HourTicks}) =>
        /\ Len(result.value) = ExpectedInstants
        /\ OneHourApart(result.value)
        /\ NamedDaysAgree
        /\ WithinTheDay(result.value)

\* the fall-back day of Europe/Berlin, 25 instants
C20_Witness ==
    /\ IsLocalDay
    /\ call.tz = "Europe/Berlin"
    /\ call.local_day = Date(10, 27)
    /\ FallBackDay
    /\ Len(result.value) = 25

\* the spring-forward day of Europe/Brussels, 23 instants
C20_WitnessSpring ==
    /\ IsLocalDay
    /\ call.tz = "Europe/Brussels"
    /\ call.local_day = Date(3, 31)
    /\ SpringForwardDay
    /\ Len(result.value) = 23

-----------------------------------------------------------------------------
(* What the claims speak of, read off the state after FTRSettings(...) *)

IsConstruction == call.op = "FTRSettings"

ValidOptions ==
    call.n_scenarios >= 1 /\ call.block_length_days >= 1 /\ call.seed >= 0

(* C21: constructing settings with n_scenarios < 1, block_length_days < 1 or
   seed < 0 fails with a configuration error and yields no settings object;
   with n_scenarios >= 1, block_length_days >= 1 and seed >= 0 it succeeds
   and the object has the values given. *)
C21_InvalidSettingsRejected ==
    IsConstruction =>
        /\ ~ValidOptions =>
            /\ result.status = "raised"
            /\ result.exc = "ValidationError"
            /\ "value" \notin DOMAIN result
        /\ ValidOptions =>
            /\ IsOk(result)
            /\ result.value.n_scenarios = call.n_scenarios
            /\ result.value.block_length_days = call.block_length_days
            /\ result.value.seed = call.seed

\* a negative seed alone is rejected
C21_Witness ==
    /\ IsConstruction
    /\ call.seed < 0 /\ call.n_scenarios >= 1 /\ call.block_length_days >= 1
    /\ result.status = "raised"

\* valid options are accepted
C21_WitnessAccepted == IsConstruction /\ ValidOptions /\ IsOk(result)

WithinLimits(settings) ==
    settings.n_scenarios >= 1 /\ settings.block_length_days >= 1 /\ settings.seed >= 0

(* C22: settings are immutable: no field of a constructed settings object
   changes, so every settings object that reaches bootstrap_scenarios has
   n_scenarios >= 1, block_length_days >= 1 and seed >= 0. *)
C22_SettingsStayWithinLimits ==
    /\ (IsConstruction /\ IsOk(obj)) =>
        /\ obj.value.n_scenarios = call.n_scenarios
        /\ obj.value.block_length_days = call.block_length_days
        /\ obj.value.seed = call.seed
    /\ IsBootstrap => WithinLimits(call.settings)

\* the copy made by the command line differs in cache_dir only
C22_CopyKeepsLimits ==
    [][(IsConstruction /\ IsOk(obj) /\ WithinLimits(obj.value) /\ others' = others)
        => (IsOk(obj') => WithinLimits(obj'.value))]_vars

\* a changed settings object has been handed to bootstrap_scenarios
C22_Witness == IsBootstrap /\ IsOk(obj) /\ call.settings = obj.value /\ others >= 1

-----------------------------------------------------------------------------
(* What the claims speak of, read off the state after standardize_direction *)

IsDirection == call.op = "standardize_direction"

SamePair == call.extracted = call.desired

ReversedPair == call.extracted = <<call.desired[2], call.desired[1]>>

\* the table given, every mw negated
AllNegated(df) ==
    [df EXCEPT !.rows = [i \in 1..Len(df.rows) |->
                            FlowRow(df.rows[i].ts, RSub(R(0), df.rows[i].mw))]]

ReturnsUnchanged == IsOk(result) /\ result.value = call.df /\ prices = call.df

ReturnsNegatedCopy ==
    /\ IsOk(result)
    /\ result.value = AllNegated(call.df)
    /\ ~result.is_input
    /\ prices = call.df

(* C23: standardize_direction returns the table unchanged when the extracted
   (from, to) pair equals the desired pair, returns a copy with every mw
   negated, the input table unmodified, when the extracted pair is exactly
   the reverse of the desired pair, and raises ValueError for every other
   combination of zones. *)
C23_DirectionStandardized ==
    IsDirection =>
        /\ SamePair => ReturnsUnchanged
        /\ ReversedPair => ReturnsNegatedCopy
        /\ (~SamePair /\ ~ReversedPair) =>
            (result.status = "raised" /\ result.exc = "ValueError" /\ prices = call.df)

(* C23, the reverse case read as: reversed and not equal.  A pair from a zone
   to itself is its own reverse, and the table comes back unchanged. *)
C23_EqualBeforeReversed ==
    IsDirection =>
        /\ SamePair => ReturnsUnchanged
        /\ (ReversedPair /\ ~SamePair) => ReturnsNegatedCopy
        /\ (~SamePair /\ ~ReversedPair) =>
            (result.status = "raised" /\ result.exc = "ValueError" /\ prices = call.df)

\* a table with a value other than zero came back negated
C23_Witness ==
    /\ IsDirection /\ ReversedPair /\ ~SamePair
    /\ IsOk(result)
    /\ result.value # call.df
    /\ Len(call.df.rows) >= 2

-----------------------------------------------------------------------------
(* What the claims speak of: the blocks behind the scenarios returned *)

\* the residual values that are not missing, in order
PresentValues == SelectSeq(call.residual_series, LAMBDA x : ~IsNaN(x))

\* B = min(max(block_length_days * 24, 1), L)
BlockValues ==
    Min(Max(call.settings.block_length_days * HoursPerDay, 1), Len(PresentValues))

\* blocks drawn for one scenario
BlocksPerScenario == (call.n_hours + BlockValues - 1) \div BlockValues

\* the start index of block j (from 0) of scenario k (from 1): the draws of
\* one stream, taken in order
BlockStart(k, j) ==
    Randrange([seed |-> call.settings.seed, pos |-> (k - 1) * BlocksPerScenario + j],
              Len(PresentValues))

\* value i (from 0) of the block that starts at s, around the end of the list
CyclicValue(s, i) == PresentValues[((s + i) % Len(PresentValues)) + 1]

\* value h (from 1) of scenario k
ScenarioValue(k, h) ==
    CyclicValue(BlockStart(k, (h - 1) \div BlockValues), (h - 1) % BlockValues)

(* C24: with L the number of non-missing residual values, every block drawn
   by bootstrap_scenarios has exactly B = min(max(block_length_days * 24, 1), L)
   values and is cyclically contiguous, values[(s + i) mod L] for
   i = 0..B-1 from its start s in 0..L-1; every value of every scenario is one
   of the non-missing residual values and no block has more than L values. *)
C24_BlocksAreCyclic ==
    (IsBootstrap /\ IsOk(result)) =>
        /\ BlockValues >= 1 /\ BlockValues <= Len(PresentValues)
        /\ \A k \in 1..Len(result.value.scenarios) :
            \A h \in 1..Len(result.value.scenarios[k]) :
                /\ result.value.scenarios[k][h] = ScenarioValue(k, h)
                /\ \E v \in 1..Len(PresentValues) :
                    result.value.scenarios[k][h] = PresentValues[v]
                /\ BlockStart(k, (h - 1) \div BlockValues) \in 0..(Len(PresentValues) - 1)

\* a block of several values that runs past the end of the values and is
\* used to its last value
C24_Witness ==
    /\ IsBootstrap /\ IsOk(result)
    /\ BlockValues >= 2
    /\ call.n_hours >= BlockValues
    /\ Len(result.value.scenarios) >= 1
    /\ BlockStart(1, 0) + BlockValues > Len(PresentValues)
    /\ BlockStart(1, 0) >= 1

-----------------------------------------------------------------------------
(* What the claims speak of, read off the state after _prepare_node_prices *)

IsNode == call.op = "_prepare_node_prices"

Earliest(S) == CHOOSE t \in S : \A u \in S : t <= u

Latest(S) == CHOOSE t \in S : \A u \in S : u <= t

\* every hour from the earliest to the latest observed instant
HoursSpanned(S) == {t \in Earliest(S)..Latest(S) : (t - Earliest(S)) % HourTicks = 0}

\* the averaged price observed for the call's node at an instant
ObservedPrice(t) == PlainMean(PricesAt(call.node, t))

Ascends(series) == \A i, j \in 1..Len(series) : i < j => series[i].t < series[j].t

DropAsObserved ==
    /\ Index(result.value) = ObservedAt(call.node)
    /\ Ascends(result.value)
    /\ \A i \in 1..Len(result.value) : result.value[i].v = ObservedPrice(result.value[i].t)

(* C25: the missing-hour policy is applied per node: under drop a node's
   series has exactly its observed timestamps; under ffill it has one entry
   for every hour from its earliest to its latest observed timestamp, each
   observed timestamp keeps its (averaged) observed price, and each unobserved
   hour takes the price of the latest earlier observed hour. *)
C25_PolicyPerNode ==
    (IsNode /\ IsOk(result)) =>
        /\ call.missing_policy = "drop" => DropAsObserved
        /\ call.missing_policy = "ffill" =>
            /\ Index(result.value) = HoursSpanned(ObservedAt(call.node))
            /\ Ascends(result.value)
            /\ \A t \in ObservedAt(call.node) :
                t \in Index(result.value) /\ At(result.value, t) = ObservedPrice(t)
            /\ \A t \in Index(result.value) \ ObservedAt(call.node) :
                At(result.value, t)
                    = ObservedPrice(Latest({u \in ObservedAt(call.node) : u < t}))

\* the observed instants on the hourly grid that have a price
Known == {t \in ObservedAt(call.node) \cap HoursSpanned(ObservedAt(call.node)) : ~IsNaN(ObservedPrice(t))}

\* the price of the latest known instant up to t, missing when there is none
CarriedPrice(t) ==
    IF {u \in Known : u <= t} = {} THEN NaN ELSE ObservedPrice(Latest({u \in Known : u <= t}))

(* C25, with the grid counted in whole hours from the earliest observed
   instant: under ffill the series has exactly the grid's instants; observed
   instants off the grid are left out; every grid instant has the price of the
   latest observed grid instant up to it that has a price, missing when there
   is none.  Under drop the series is as observed. *)
C25_FilledOnTheHourlyGrid ==
    (IsNode /\ IsOk(result)) =>
        /\ call.missing_policy = "drop" => DropAsObserved
        /\ call.missing_policy = "ffill" =>
            /\ Index(result.value) = HoursSpanned(ObservedAt(call.node))
            /\ Ascends(result.value)
            /\ \A t \in Index(result.value) : At(result.value, t) = CarriedPrice(t)

\* an unobserved hour took the price of the hour before it
C25_Witness ==
    /\ IsNode /\ IsOk(result)
    /\ call.missing_policy = "ffill"
    /\ \E t \in Index(result.value) \ ObservedAt(call.node) : ~IsNaN(At(result.value, t))

\* an observed instant off the hourly grid is not in the filled series
C25_WitnessOffGrid ==
    /\ IsNode /\ IsOk(result)
    /\ call.missing_policy = "ffill"
    /\ ObservedAt(call.node) \ Index(result.value) # {}

-----------------------------------------------------------------------------
(* What the claims speak of: a batch against its contracts priced alone *)

Orderings(n) == {f \in [1..n -> 1..n] : \A i, j \in 1..n : f[i] = f[j] => i = j}

Reordered(xs, f) == [i \in 1..Len(xs) |-> xs[f[i]]]

\* the specs of the call in another order
ReorderedSpecs(f) ==
    IF "records" \in DOMAIN call.specs THEN SpecFrame(Reordered(call.specs.records, f))
    ELSE SpecList(Reordered(call.specs.items, f))

\* the batch of the call with its specs in another order
ReorderedBatch(f) ==
    price_batch(ReorderedSpecs(f), call.data_provider, call.curve, call.model,
                call.settings, globalRng)

\* the i-th contract priced by a call of its own, before any other call
PricedAlone(i) ==
    price_contract(InputSpec(Inputs[i]), Provide(call.data_provider, InputSpec(Inputs[i])),
                   Provide(call.curve, InputSpec(Inputs[i])), call.model, call.settings,
                   OsSeeded)

SameValuation(row, valuation) ==
    /\ row.price = valuation.price
    /\ row.mean_payoff = valuation.mean_payoff
    /\ row.stdev_payoff = valuation.stdev_payoff
    /\ row.p5_payoff = valuation.p5_payoff
    /\ row.p95_payoff = valuation.p95_payoff
    /\ row.n_scenarios = valuation.n_scenarios
    /\ row.data_version = valuation.data_version

(* C26: batch results do not depend on batch composition or position: in a
   successfully priced batch every row's price, mean_payoff, stdev_payoff,
   p5_payoff, p95_payoff, n_scenarios and data_version equal those of
   price_contract called alone on that spec with the same tables, model and
   settings; reordering the specs only reorders the rows; two identical specs
   get identical rows. *)
C26_RowsIndependentOfBatch ==
    (IsBatch /\ IsOk(result)) =>
        /\ \A i \in 1..Len(Inputs) :
            /\ IsOk(PricedAlone(i))
            /\ SameValuation(result.value.rows[i], PricedAlone(i).value)
        /\ \A f \in Orderings(Len(Inputs)) :
            /\ IsOk(ReorderedBatch(f))
            /\ ReorderedBatch(f).value.rows = Reordered(result.value.rows, f)
        /\ \A i, j \in 1..Len(Inputs) :
            InputSpec(Inputs[i]) = InputSpec(Inputs[j])
                => result.value.rows[i] = result.value.rows[j]

\* a batch of one contract given twice, its scenarios not all alike
C26_Witness ==
    /\ IsBatch /\ IsOk(result)
    /\ Len(Inputs) >= 2
    /\ InputSpec(Inputs[1]) = InputSpec(Inputs[2])
    /\ result.value.rows[1].stdev_payoff # Sqrt(R(0))
    /\ result.value.rows[1] = result.value.rows[2]

\* a batch of two different contracts with different prices
C26_WitnessReordered ==
    /\ IsBatch /\ IsOk(result)
    /\ Len(Inputs) >= 2
    /\ result.value.rows[1].price # result.value.rows[2].price

\* the first element that does not convert
FirstInvalid ==
    CHOOSE k \in 1..Len(Inputs) :
        /\ ~IsOk(NormalizeItem(Inputs[k]))
        /\ \A i \in 1..(k - 1) : IsOk(NormalizeItem(Inputs[i]))

(* C27: price_batch converts every input record into a ContractSpec before
   it prices any contract: when the record at any position is invalid the
   call fails, with the error of the conversion, before a provider is called
   for any contract and before any contract is priced, even when all earlier
   records are valid. *)
C27_ConversionBeforePricing ==
    (IsBatch /\ ~AllConvert) =>
        /\ result.status = "raised"
        /\ result.exc = NormalizeItem(Inputs[FirstInvalid]).exc
        /\ result.msg = NormalizeItem(Inputs[FirstInvalid]).msg
        /\ result.log.price_calls = <<>>
        /\ result.log.curve_calls = <<>>
        /\ result.log.priced = <<>>

\* the second record is invalid, the first is valid and would have priced
C27_Witness ==
    /\ IsBatch
    /\ Len(Inputs) >= 2
    /\ ~AllConvert
    /\ FirstInvalid = 2
    /\ IsOk(Alone(1))
    /\ IsCallable(call.data_provider) /\ IsCallable(call.curve)
    /\ result.status = "raised"

-----------------------------------------------------------------------------
(* What the claims speak of: contracts without hours, and contracts reversed *)

\* the contract of the call ends when it starts, or before
NoContractHours ==
    Priced1 /\ call.contract_spec.end_utc.wall <= call.contract_spec.start_utc.wall

(* C28: a contract with no contract hours (end_utc <= start_utc, which
   ContractSpec construction accepts) is never priced: price_contract raises
   an error for it instead of returning a ValuationResult with hours = 0 or
   price = 0. *)
C28_NoHoursNoPrice ==
    NoContractHours =>
        /\ result.status = "raised"
        /\ "value" \notin DOMAIN result
        /\ call.contract_spec \in ContractSpecs

\* such a contract reached the sampler, which refused it
C28_Witness ==
    /\ NoContractHours
    /\ call.contract_spec.end_utc.wall < call.contract_spec.start_utc.wall
    /\ result.status = "raised"
    /\ result.msg = ErrHours

\* the contract of the call with source and sink swapped
SwappedSpec == [call.contract_spec EXCEPT !.source = call.contract_spec.sink, !.sink = call.contract_spec.source]

\* the contract of the call with another capacity
WithCapacity(mw) == [call.contract_spec EXCEPT !.mw = mw]

\* price_contract on another contract, everything else as in the call
PricedInstead(contract_spec) ==
    price_contract(contract_spec, prices, curve, call.model, call.settings, globalRng)

Mirrored(original, swapped) ==
    /\ swapped.price = RSub(R(0), original.price)
    /\ swapped.mean_payoff = RSub(R(0), original.mean_payoff)
    /\ swapped.stdev_payoff = original.stdev_payoff
    /\ swapped.p5_payoff = RSub(R(0), original.p95_payoff)
    /\ swapped.p95_payoff = RSub(R(0), original.p5_payoff)

TriedCapacities == {R(0), R(3), <<-1, 2>>}

\* the price is mw times the price of one unit, for the call and for the
\* capacities tried
LinearInCapacity(unit) ==
    /\ IsOk(unit)
    /\ result.value.price = RMul(call.contract_spec.mw, unit.value.price)
    /\ \A mw \in TriedCapacities : IsOk(PricedInstead(WithCapacity(mw)))
    /\ \A mw \in TriedCapacities :
        PricedInstead(WithCapacity(mw)).value.price = RMul(mw, unit.value.price)

(* C29: with no curve supplied pricing is antisymmetric in the contract
   direction: for the same price table, period, mw and settings the contract
   with source and sink swapped has price and mean_payoff negated, the same
   stdev_payoff, p5_payoff equal to minus the original p95_payoff and
   p95_payoff equal to minus the original p5_payoff; and the price scales
   linearly with mw, mw = 0 giving price 0. *)
C29_AntisymmetricAndLinear ==
    (Returned /\ curve = NoCurve) =>
        /\ IsOk(PricedInstead(SwappedSpec))
        /\ Mirrored(result.value, PricedInstead(SwappedSpec).value)
        /\ LinearInCapacity(PricedInstead(WithCapacity(R(1))))
        /\ PricedInstead(WithCapacity(R(0))).value.price = R(0)

\* a contract whose scenarios differ and whose price is not zero
C29_Witness ==
    /\ Returned /\ curve = NoCurve
    /\ result.value.price # R(0)
    /\ result.value.p5_payoff # result.value.p95_payoff
    /\ result.value.p5_payoff # RSub(R(0), result.value.p95_payoff)

-----------------------------------------------------------------------------
(* C30: _retry is bounded, ends, and waits only between attempts *)

IsRetry == call.op = "_retry"

RetryEnded == IsRetry /\ result # NoResult

Failed(outcome) == outcome.kind = "Exception"

\* every call of fn made so far but the last one failed with an Exception
EarlierCallsFailed == \A i \in 1..(Len(obj.calls) - 1) : Failed(obj.calls[i])

\* the waits so far are b, 2b, 4b, ... and each stands between two attempts
WaitsDouble ==
    /\ \A k \in 1..Len(obj.sleeps) :
        obj.sleeps[k] = RMul(call.backoff_base_seconds, R(2 ^ (k - 1)))
    /\ Len(obj.sleeps) = obj.attempt - 1
    /\ obj.attempt <= call.max_attempts \/ Len(obj.calls) = 0

\* fn is never called more often than max_attempts, and never again after a
\* call that did not fail with an Exception
CallsBounded ==
    /\ Len(obj.calls) <= call.max_attempts
    /\ Len(obj.calls) \in {obj.attempt - 1, obj.attempt}
    /\ EarlierCallsFailed

\* a call that returned: the value is that of the first call that succeeded,
\* which is the last call made, with one wait after each failure before it
ReturnedFirstSuccess ==
    IsOk(result) =>
        /\ Len(obj.calls) >= 1
        /\ obj.calls[Len(obj.calls)].kind = "returns"
        /\ result.value = obj.calls[Len(obj.calls)].value
        /\ Len(obj.sleeps) = Len(obj.calls) - 1

\* EntsoeError: exactly max_attempts calls, all failed, chained to the last
\* one (to None when max_attempts is 0), a wait after each failure but the last
RaisedAfterAllFailed ==
    (~IsOk(result) /\ result.exc = "EntsoeError") =>
        /\ Len(obj.calls) = call.max_attempts
        /\ \A i \in 1..Len(obj.calls) : Failed(obj.calls[i])
        /\ result.cause = IF Len(obj.calls) = 0 THEN NoException
                          ELSE [exc |-> obj.calls[Len(obj.calls)].exc]
        /\ Len(obj.sleeps) = IF call.max_attempts = 0 THEN 0 ELSE call.max_attempts - 1

\* what is true of a _retry call at every step and once it has ended
RetrySafe ==
    IsRetry =>
        /\ CallsBounded
        /\ WaitsDouble
        /\ RetryEnded => (ReturnedFirstSuccess /\ RaisedAfterAllFailed)

\* C30: _retry calls the wrapped request at most max_attempts times and always
\* ends; it returns the result of the first successful call without calling
\* again, raises EntsoeError chained to the last failure only after
\* max_attempts consecutive failed calls, and waits
\* backoff_base_seconds * 2^(k-1) after the k-th failure only when another
\* attempt follows, never after the last one.
C30_RetryBoundedAndEnds == [] RetrySafe /\ ((IsRetry /\ Running) ~> RetryEnded)

\* all of three attempts failed with half a second of backoff: EntsoeError
\* after waits of 1/2 and 1
C30_Witness ==
    /\ RetryEnded
    /\ call.max_attempts = 3
    /\ call.backoff_base_seconds = <<1, 2>>
    /\ ~IsOk(result) /\ result.exc = "EntsoeError"
    /\ Len(obj.calls) = 3
    /\ obj.sleeps = <<(<<1, 2>>), R(1)>>

\* the second of three attempts succeeded after one wait
C30_WitnessReturned ==
    /\ RetryEnded
    /\ call.max_attempts = 3
    /\ IsOk(result)
    /\ Len(obj.calls) = 2
    /\ Len(obj.sleeps) = 1

====
